---- MODULE Spec2Model ----
(***************************************************************************)
(* Suggestion generation, word-level diff and change reconciliation of the *)
(* suggestions-app example (backend diffCalculator / suggestionService /   *)
(* suggestionRules, frontend EditorWithSuggestions).                       *)
(*                                                                         *)
(* A text is a sequence of one-character strings.  Offsets are the         *)
(* 0-based JavaScript offsets of the source; Slice(s, a, b) is             *)
(* s.slice(a, b).                                                          *)
(***************************************************************************)
EXTENDS Integers, Sequences, FiniteSets, TLC

VARIABLES
    phase,      \* position of the driver of the specification in use
    original,   \* first argument of calculateWordDiff / applyChangesToContent
    suggested,  \* second argument of calculateWordDiff
    parts,      \* the edit script diffWords returned
    rawChanges, \* `changes` of calculateWordDiff before mergeAdjacentChanges
    changes,    \* the list calculateWordDiff returned
    accepted,   \* the list handed to applyChangesToContent
    result,     \* what applyChangesToContent returned
    error,      \* what the last operation threw (NoError: it returned)
    contentArg, \* first argument of generateSuggestions
    typeArg,    \* second argument of generateSuggestions
    contextArg, \* third argument of generateSuggestions
    suggestion, \* what generateSuggestions returned; `suggestion` of the component
    currentContent,    \* `currentContent` of EditorWithSuggestions
    selectedChangeIds, \* `selectedChangeIds` of EditorWithSuggestions
    loading,           \* `loading` of useSuggestions
    request            \* the call of getSuggestions in flight or last settled

\* the state of the React component and of its hook
componentState == <<currentContent, selectedChangeIds, loading, request>>

vars == <<phase, original, suggested, parts, rawChanges, changes, accepted,
          result, error, contentArg, typeArg, contextArg, suggestion,
          currentContent, selectedChangeIds, loading, request>>

NoRequest == [state |-> "none", content |-> <<>>, type |-> ""]

\* no component is mounted
Unmounted ==
    /\ currentContent = <<>>
    /\ selectedChangeIds = {}
    /\ loading = FALSE
    /\ request = NoRequest

(***************************************************************************)
(* Bounds of the model.                                                    *)
(***************************************************************************)
MaxLen == 3

DiffChars == {"a", "b", " ", ","}

Texts == UNION {[1..k -> DiffChars] : k \in 0..MaxLen}

(***************************************************************************)
(* JavaScript string primitives.                                           *)
(***************************************************************************)
Min(a, b) == IF a < b THEN a ELSE b

Max(a, b) == IF a > b THEN a ELSE b

\* s.slice(a, b) for 0 <= a, 0 <= b (indices past the end are clamped)
Slice(s, a, b) == SubSeq(s, Min(a, Len(s)) + 1, Min(b, Len(s)))

\* s.slice(a)
SliceFrom(s, a) == SubSeq(s, Min(a, Len(s)) + 1, Len(s))

RECURSIVE Join(_)
\* tokens.join('')
Join(tokens) == IF tokens = <<>> THEN <<>> ELSE Head(tokens) \o Join(Tail(tokens))

UpperLetters == <<"A","B","C","D","E","F","G","H","I","J","K","L","M",
                  "N","O","P","Q","R","S","T","U","V","W","X","Y","Z">>

LowerLetters == <<"a","b","c","d","e","f","g","h","i","j","k","l","m",
                  "n","o","p","q","r","s","t","u","v","w","x","y","z">>

Digits == {"0","1","2","3","4","5","6","7","8","9"}

Range(s) == {s[i] : i \in DOMAIN s}

\* \w of a JavaScript regular expression
WordChars == Range(UpperLetters) \cup Range(LowerLetters) \cup Digits \cup {"_"}

\* \s of a JavaScript regular expression (the characters the model uses)
SpaceChars == {" ", "\t", "\n", "\r"}

IsWordChar(c) == c \in WordChars

IsSpaceChar(c) == c \in SpaceChars

(***************************************************************************)
(* diffWords of the 'diff' package, as calculateWordDiff calls it: the     *)
(* word tokenizer, the token equality that ignores whitespace, the Myers   *)
(* search of the base Diff class and buildValues.                          *)
(***************************************************************************)
\* [^\S\r\n]: whitespace other than a line break
IsInlineSpace(c) == c \in {" ", "\t"}

\* [()[\]{}'"\r\n]: always a token of its own
IsBracketChar(c) == c \in {"(", ")", "[", "]", "{", "}", "'", "\"", "\r", "\n"}

CharKind(c) ==
    IF IsInlineSpace(c) THEN "space"
    ELSE IF IsBracketChar(c) THEN "bracket"
    ELSE IF IsWordChar(c) THEN "word"
    ELSE "other"

RECURSIVE RunEnd(_, _, _)
\* the 0-based end of the run of characters of kind k that starts at i
RunEnd(value, i, k) ==
    IF i < Len(value) /\ CharKind(value[i + 1]) = k
    THEN RunEnd(value, i + 1, k)
    ELSE i

RECURSIVE TokenizeFrom(_, _)
TokenizeFrom(value, i) ==
    IF i >= Len(value) THEN <<>>
    ELSE LET k == CharKind(value[i + 1])
             j == IF k = "bracket" THEN i + 1 ELSE RunEnd(value, i + 1, k)
         IN  <<Slice(value, i, j)>> \o TokenizeFrom(value, j)

\* wordDiff.tokenize followed by removeEmpty: split at runs of inline
\* whitespace, at each bracket, quote or line break, and at every \b
wordTokenize(value) == TokenizeFrom(value, 0)

\* /\S/.test(s)
HasNonSpace(s) == \E i \in DOMAIN s : ~IsSpaceChar(s[i])

\* wordDiff.equals with ignoreWhitespace, the option diffWords sets
wordEquals(left, right) ==
    left = right \/ (~HasNonSpace(left) /\ ~HasNonSpace(right))

NoPath == [defined |-> FALSE, newPos |-> -1, components |-> <<>>]

\* Diff.pushComponent
pushComponent(components, added, removed) ==
    LET n == Len(components) IN
    IF n > 0 /\ components[n].added = added /\ components[n].removed = removed
    THEN [components EXCEPT ![n].count = @ + 1]
    ELSE Append(components, [count |-> 1, added |-> added, removed |-> removed])

RECURSIVE CommonCount(_, _, _, _)
\* the while loop of Diff.extractCommon (newPos, oldPos: index of the last
\* token consumed, -1 before the first)
CommonCount(newString, oldString, newPos, oldPos) ==
    IF /\ newPos + 1 < Len(newString)
       /\ oldPos + 1 < Len(oldString)
       /\ wordEquals(newString[newPos + 2], oldString[oldPos + 2])
    THEN 1 + CommonCount(newString, oldString, newPos + 1, oldPos + 1)
    ELSE 0

\* Diff.extractCommon: the path after following the diagonal
extractCommon(basePath, newString, oldString, diagonalPath) ==
    LET commonCount == CommonCount(newString, oldString, basePath.newPos,
                                   basePath.newPos - diagonalPath)
    IN  [defined    |-> TRUE,
         newPos     |-> basePath.newPos + commonCount,
         components |->
             IF commonCount > 0
             THEN Append(basePath.components,
                         [count |-> commonCount, added |-> FALSE, removed |-> FALSE])
             ELSE basePath.components]

\* "hit the end of both strings"
PathDone(path, newString, oldString, diagonalPath) ==
    /\ path.newPos + 1 >= Len(newString)
    /\ (path.newPos - diagonalPath) + 1 >= Len(oldString)

RECURSIVE diagonalLoop(_, _, _, _, _)
\* the for loop of Diff.diff's execEditLength from diagonalPath on;
\* bestPath maps a diagonal to the best path that ends on it.  Ends with
\* the components of the first path that reaches the end of both token
\* lists, or with bestPath as the loop leaves it.
diagonalLoop(bestPath, editLength, diagonalPath, newString, oldString) ==
    IF diagonalPath > editLength
    THEN [done |-> FALSE, bestPath |-> bestPath, components |-> <<>>]
    ELSE
    LET addPath    == bestPath[diagonalPath - 1]
        removePath == bestPath[diagonalPath + 1]
        oldPos     == (IF removePath.defined THEN removePath.newPos ELSE 0)
                      - diagonalPath
        cleared    == [bestPath EXCEPT ![diagonalPath - 1] = NoPath]
        canAdd     == addPath.defined /\ addPath.newPos + 1 < Len(newString)
        canRemove  == removePath.defined /\ 0 <= oldPos /\ oldPos < Len(oldString)
    IN
    IF ~canAdd /\ ~canRemove
    THEN diagonalLoop([cleared EXCEPT ![diagonalPath] = NoPath],
                      editLength, diagonalPath + 2, newString, oldString)
    ELSE
    LET branched ==
            IF ~canAdd \/ (canRemove /\ addPath.newPos < removePath.newPos)
            THEN [removePath EXCEPT
                    !.components = pushComponent(@, FALSE, TRUE)]
            ELSE [addPath EXCEPT
                    !.newPos = @ + 1,
                    !.components = pushComponent(@, TRUE, FALSE)]
        basePath == extractCommon(branched, newString, oldString, diagonalPath)
    IN
    IF PathDone(basePath, newString, oldString, diagonalPath)
    THEN [done |-> TRUE, bestPath |-> bestPath, components |-> basePath.components]
    ELSE diagonalLoop([cleared EXCEPT ![diagonalPath] = basePath],
                      editLength, diagonalPath + 2, newString, oldString)

RECURSIVE execEditLength(_, _, _, _)
\* Diff.diff's execEditLength, called with editLength 1, 2, ... until a
\* path reaches the end of both token lists: that path's components
execEditLength(bestPath, editLength, newString, oldString) ==
    LET round == diagonalLoop(bestPath, editLength, -editLength,
                              newString, oldString)
    IN  IF round.done THEN round.components
        ELSE execEditLength(round.bestPath, editLength + 1, newString, oldString)

RECURSIVE buildValuesFrom(_, _, _, _, _, _)
\* the loop of buildValues: a common or added part takes its text from the
\* new tokens, a removed part from the old ones; a removed part that
\* follows an added one is moved in front of it
buildValuesFrom(components, componentPos, newPos, oldPos, newString, oldString) ==
    IF componentPos > Len(components) THEN components
    ELSE
    LET component == components[componentPos] IN
    IF ~component.removed
    THEN LET valued == [count   |-> component.count,
                        added   |-> component.added,
                        removed |-> component.removed,
                        value   |-> Join(SubSeq(newString, newPos + 1,
                                                newPos + component.count))]
         IN  buildValuesFrom([components EXCEPT ![componentPos] = valued],
                             componentPos + 1,
                             newPos + component.count,
                             IF component.added THEN oldPos
                             ELSE oldPos + component.count,
                             newString, oldString)
    ELSE LET valued == [count   |-> component.count,
                        added   |-> component.added,
                        removed |-> component.removed,
                        value   |-> Join(SubSeq(oldString, oldPos + 1,
                                                oldPos + component.count))]
             swapped ==
                 IF componentPos > 1 /\ components[componentPos - 1].added
                 THEN [components EXCEPT
                         ![componentPos - 1] = valued,
                         ![componentPos] = components[componentPos - 1]]
                 ELSE [components EXCEPT ![componentPos] = valued]
         IN  buildValuesFrom(swapped, componentPos + 1, newPos,
                             oldPos + component.count, newString, oldString)

\* buildValues: the valued parts, and its special case for a final added
\* or removed part that equals '' (whitespace): it is appended to the part
\* before it and dropped
buildValues(components, newString, oldString) ==
    LET valued == buildValuesFrom(components, 1, 0, 0, newString, oldString)
        n      == Len(valued)
    IN  IF /\ n > 1
           /\ (valued[n].added \/ valued[n].removed)
           /\ wordEquals(<<>>, valued[n].value)
        THEN [SubSeq(valued, 1, n - 1) EXCEPT
                ![n - 1].value = @ \o valued[n].value]
        ELSE valued

\* the diagonals execEditLength can touch
Diagonals(newString, oldString) ==
    -(Len(newString) + Len(oldString) + 2) .. (Len(newString) + Len(oldString) + 2)

\* Diff.diff for diffWords(oldStr, newStr): the list of parts
\* {value, added, removed}
diffWords(oldStr, newStr) ==
    LET oldString == wordTokenize(oldStr)
        newString == wordTokenize(newStr)
        seed      == extractCommon([defined |-> TRUE, newPos |-> -1,
                                    components |-> <<>>],
                                   newString, oldString, 0)
    IN  IF PathDone(seed, newString, oldString, 0)
        THEN <<[count |-> Len(newString), added |-> FALSE, removed |-> FALSE,
                value |-> Join(newString)]>>
        ELSE buildValues(
                 execEditLength(
                     [d \in Diagonals(newString, oldString) |->
                         IF d = 0 THEN seed ELSE NoPath],
                     1, newString, oldString),
                 newString, oldString)

(***************************************************************************)
(* EditorWithSuggestions: applyChangesToContent.                           *)
(***************************************************************************)
RECURSIVE insertByStart(_, _)
\* one step of the stable sort by descending position.start: `change`
\* goes behind every record whose start is not smaller than its own
insertByStart(sorted, change) ==
    IF sorted = <<>> THEN <<change>>
    ELSE IF Head(sorted).position.start >= change.position.start
    THEN <<Head(sorted)>> \o insertByStart(Tail(sorted), change)
    ELSE <<change>> \o sorted

RECURSIVE sortDescending(_)
\* [...changes].sort((a, b) => b.position.start - a.position.start)
sortDescending(changeList) ==
    IF changeList = <<>> THEN <<>>
    ELSE insertByStart(sortDescending(SubSeq(changeList, 1, Len(changeList) - 1)),
                       changeList[Len(changeList)])

\* the body of the for loop of applyChangesToContent
splice(text, change) ==
    LET start == change.position.start
        end   == change.position.end
    IN  IF change.type = "addition"
        THEN Slice(text, 0, start) \o change.suggested \o SliceFrom(text, start)
        ELSE IF change.type = "deletion"
        THEN Slice(text, 0, start) \o SliceFrom(text, end)
        ELSE IF change.type = "modification"
        THEN Slice(text, 0, start) \o change.suggested \o SliceFrom(text, end)
        ELSE text

RECURSIVE foldChanges(_, _, _)
\* `result` after the loop has spliced the first k records of sortedChanges
foldChanges(text, sortedChanges, k) ==
    IF k = 0 THEN text
    ELSE splice(foldChanges(text, sortedChanges, k - 1), sortedChanges[k])

\* applyChangesToContent as it would be without the sort: the records are
\* spliced in the order of the list passed in
applyChangesUnsorted(orig, changeList) ==
    foldChanges(orig, changeList, Len(changeList))

applyChangesToContent(orig, changeList) ==
    LET sortedChanges == sortDescending(changeList)
    IN  foldChanges(orig, sortedChanges, Len(sortedChanges))

\* the array passed as `changes` when the function returns, as it would be
\* with `changes.sort(...)`: Array.prototype.sort reorders the array it is
\* called on
changesAfterSortInPlace(changeList) ==
    LET heap == [changes |-> changeList]
    IN  [heap EXCEPT !.changes = sortDescending(@)].changes

\* the array passed as `changes` when the function returns: the spread
\* makes a new array of the same records, sort reorders that one, and the
\* loop only reads the records
changesAfterApply(changeList) ==
    LET heap == [changes |-> changeList, sortedChanges |-> changeList]
    IN  [heap EXCEPT !.sortedChanges = sortDescending(@)].changes

(***************************************************************************)
(* JavaScript regular expressions, as far as the rules use them.  A        *)
(* pattern is a sequence of items; MatchAt is the backtracking matcher     *)
(* started at one offset, replace is String.prototype.replace.             *)
(***************************************************************************)
Item(k, s, p) == [k |-> k, s |-> s, p |-> p]

\* the other case of a letter, or the character itself
SwapCase(c) ==
    IF \E i \in DOMAIN LowerLetters : LowerLetters[i] = c
    THEN UpperLetters[CHOOSE i \in DOMAIN LowerLetters : LowerLetters[i] = c]
    ELSE IF \E i \in DOMAIN UpperLetters : UpperLetters[i] = c
    THEN LowerLetters[CHOOSE i \in DOMAIN UpperLetters : UpperLetters[i] = c]
    ELSE c

\* literal text under the i flag
CI(chars) == [i \in DOMAIN chars |-> Item("chr", {chars[i], SwapCase(chars[i])}, <<>>)]

\* literal text without the i flag
CS(chars) == [i \in DOMAIN chars |-> Item("chr", {chars[i]}, <<>>)]

\* [...] and [^...] under the i flag
ClassCI(chars) == <<Item("chr", Range(chars) \cup {SwapCase(c) : c \in Range(chars)}, <<>>)>>

NotClassCI(chars) == <<Item("not", Range(chars) \cup {SwapCase(c) : c \in Range(chars)}, <<>>)>>

\* \w, \s+, \s*, [\w]+
AWordChar == <<Item("chr", WordChars, <<>>)>>

Spaces1 == <<Item("plus", SpaceChars, <<>>)>>

Spaces0 == <<Item("star", SpaceChars, <<>>)>>

WordChars1 == <<Item("plus", WordChars, <<>>)>>

\* [^\w\s]+
NeitherWordNorSpace1 == <<Item("notplus", WordChars \cup SpaceChars, <<>>)>>

\* \b
WB == <<Item("wb", {}, <<>>)>>

\* (?!p), (?<!p), (p1|p2|...), (p) as capture group 1
NotFollowedBy(p) == <<Item("nla", {}, p)>>

NotPrecededBy(p) == <<Item("nlb", {}, p)>>

OneOf(ps) == <<Item("alt", {}, ps)>>

Group(p) == <<Item("open", {}, <<>>)>> \o p \o <<Item("close", {}, <<>>)>>

NoMatch == [ok |-> FALSE, end |-> 0, gs |-> 0, ge |-> 0]

\* \b holds at pos: exactly one of the characters around it is a \w
AtWordBoundary(text, pos) ==
    (pos > 0 /\ IsWordChar(text[pos])) # (pos < Len(text) /\ IsWordChar(text[pos + 1]))

RECURSIVE RunLength(_, _, _)
\* how many characters of the set s follow pos
RunLength(s, text, pos) ==
    IF pos < Len(text) /\ text[pos + 1] \in s
    THEN 1 + RunLength(s, text, pos + 1)
    ELSE 0

RECURSIVE RunLengthOutside(_, _, _)
\* how many characters outside the set s follow pos
RunLengthOutside(s, text, pos) ==
    IF pos < Len(text) /\ text[pos + 1] \notin s
    THEN 1 + RunLengthOutside(s, text, pos + 1)
    ELSE 0

RECURSIVE MatchAt(_, _, _, _, _)
RECURSIVE MatchRepeat(_, _, _, _, _, _, _)
RECURSIVE MatchAlt(_, _, _, _, _, _, _)

\* the match of `items` that starts at pos, found the way a backtracking
\* matcher finds it: [ok, end, gs, ge] with group 1 at [gs, ge)
MatchAt(items, text, pos, gs, ge) ==
    IF items = <<>> THEN [ok |-> TRUE, end |-> pos, gs |-> gs, ge |-> ge]
    ELSE
    LET it   == Head(items)
        rest == Tail(items)
    IN  CASE it.k = "chr" ->
               IF pos < Len(text) /\ text[pos + 1] \in it.s
               THEN MatchAt(rest, text, pos + 1, gs, ge) ELSE NoMatch
          [] it.k = "not" ->
               IF pos < Len(text) /\ text[pos + 1] \notin it.s
               THEN MatchAt(rest, text, pos + 1, gs, ge) ELSE NoMatch
          [] it.k = "plus" ->
               MatchRepeat(rest, text, pos, RunLength(it.s, text, pos), 1, gs, ge)
          [] it.k = "star" ->
               MatchRepeat(rest, text, pos, RunLength(it.s, text, pos), 0, gs, ge)
          [] it.k = "notplus" ->
               MatchRepeat(rest, text, pos, RunLengthOutside(it.s, text, pos), 1, gs, ge)
          [] it.k = "wb" ->
               IF AtWordBoundary(text, pos)
               THEN MatchAt(rest, text, pos, gs, ge) ELSE NoMatch
          [] it.k = "nla" ->
               IF MatchAt(it.p, text, pos, 0, 0).ok
               THEN NoMatch ELSE MatchAt(rest, text, pos, gs, ge)
          [] it.k = "nlb" ->
               IF pos >= Len(it.p) /\ MatchAt(it.p, text, pos - Len(it.p), 0, 0).ok
               THEN NoMatch ELSE MatchAt(rest, text, pos, gs, ge)
          [] it.k = "alt" -> MatchAlt(it.p, rest, text, pos, 1, gs, ge)
          [] it.k = "open" -> MatchAt(rest, text, pos, pos, ge)
          [] it.k = "close" -> MatchAt(rest, text, pos, gs, pos)

\* a greedy quantifier that has n characters to take and gives them back
\* one at a time, down to min, until the rest matches
MatchRepeat(rest, text, pos, n, min, gs, ge) ==
    IF n < min THEN NoMatch
    ELSE LET m == MatchAt(rest, text, pos + n, gs, ge)
         IN  IF m.ok THEN m
             ELSE MatchRepeat(rest, text, pos, n - 1, min, gs, ge)

\* the alternatives from the j-th on, tried in order
MatchAlt(alternatives, rest, text, pos, j, gs, ge) ==
    IF j > Len(alternatives) THEN NoMatch
    ELSE LET m == MatchAt(alternatives[j] \o rest, text, pos, gs, ge)
         IN  IF m.ok THEN m
             ELSE MatchAlt(alternatives, rest, text, pos, j + 1, gs, ge)

\* the offsets at or after pos where the pattern matches
MatchOffsets(pattern, text, pos) ==
    {p \in pos..Len(text) : MatchAt(pattern, text, p, 0, 0).ok}

\* the first match at or after pos: the regular expression is tried at
\* each offset from left to right
SearchFrom(pattern, text, pos) ==
    LET hits == MatchOffsets(pattern, text, pos)
    IN  IF hits = {} THEN NoMatch
        ELSE MatchAt(pattern, text, CHOOSE p \in hits : \A q \in hits : p <= q, 0, 0)

\* regex.test(text)
test(pattern, text) == SearchFrom(pattern, text, 0).ok

\* a replacement: literal text, with $1 where ref is 1
Literal(chars) == <<[ref |-> 0, text |-> chars]>>

Ref1 == <<[ref |-> 1, text |-> <<>>]>>

RECURSIVE Expand(_, _, _)
Expand(template, text, m) ==
    IF template = <<>> THEN <<>>
    ELSE (IF Head(template).ref = 1 THEN Slice(text, m.gs, m.ge)
          ELSE Head(template).text)
         \o Expand(Tail(template), text, m)

RECURSIVE replaceFrom(_, _, _, _, _)
\* text.replace(pattern, template) from offset pos on; `global` is the g
\* flag.  Every pattern of the rules matches at least one character.
replaceFrom(text, pattern, template, pos, global) ==
    LET hits == {p \in MatchOffsets(pattern, text, pos) :
                    MatchAt(pattern, text, p, 0, 0).end > p}
    IN  IF hits = {} THEN SliceFrom(text, pos)
        ELSE LET start == CHOOSE p \in hits : \A q \in hits : p <= q
                 m     == MatchAt(pattern, text, start, 0, 0)
             IN  Slice(text, pos, start)
                 \o Expand(template, text, m)
                 \o (IF global
                     THEN replaceFrom(text, pattern, template, m.end, global)
                     ELSE SliceFrom(text, m.end))

replaceAll(text, pattern, template) == replaceFrom(text, pattern, template, 0, TRUE)

replaceFirst(text, pattern, template) == replaceFrom(text, pattern, template, 0, FALSE)

(***************************************************************************)
(* diffCalculator: getReasonForChange and its helpers.  The regular        *)
(* expressions of these functions carry no flag.                           *)
(***************************************************************************)
\* String.prototype.toLowerCase
toLowerCase(chars) ==
    [i \in DOMAIN chars |->
        IF chars[i] \in Range(UpperLetters) THEN SwapCase(chars[i]) ELSE chars[i]]

\* /\b(innovative|exceptional|comprehensive)\b/
emphasisWords ==
    WB \o OneOf(<<CS(<<"i","n","n","o","v","a","t","i","v","e">>),
                  CS(<<"e","x","c","e","p","t","i","o","n","a","l">>),
                  CS(<<"c","o","m","p","r","e","h","e","n","s","i","v","e">>)>>) \o WB

\* /\b(very|really|quite|just)\b/
modifierWords ==
    WB \o OneOf(<<CS(<<"v","e","r","y">>), CS(<<"r","e","a","l","l","y">>),
                  CS(<<"q","u","i","t","e">>), CS(<<"j","u","s","t">>)>>) \o WB

\* (team|group|committee) and (he|she|it)
collectiveSubject == OneOf(<<CS(<<"t","e","a","m">>), CS(<<"g","r","o","u","p">>),
                            CS(<<"c","o","m","m","i","t","t","e","e">>)>>)

pronounSubject == OneOf(<<CS(<<"h","e">>), CS(<<"s","h","e">>), CS(<<"i","t">>)>>)

\* grammarPatterns of isGrammarCorrection: the {from, to} pairs in order
grammarPatterns ==
    <<[from |-> WB \o collectiveSubject \o CS(<<" ","a","r","e">>) \o WB,
       to   |-> WB \o collectiveSubject \o CS(<<" ","i","s">>) \o WB],
      [from |-> WB \o pronounSubject \o CS(<<" ","w","e","r","e">>) \o WB,
       to   |-> WB \o pronounSubject \o CS(<<" ","w","a","s">>) \o WB],
      [from |-> WB \o CS(<<"t","h","e","y","r","e">>) \o WB,
       to   |-> WB \o CS(<<"t","h","e","i","r">>) \o WB],
      [from |-> WB \o CS(<<"i","t","s">>) \o WB \o NotFollowedBy(CS(<<"'">>)),
       to   |-> WB \o CS(<<"i","t","'","s">>) \o WB],
      [from |-> WB \o CS(<<"h","a","s"," ","w","e","n","t">>) \o WB,
       to   |-> WB \o CS(<<"h","a","s"," ","g","o","n","e">>) \o WB],
      [from |-> WB \o CS(<<"h","a","s"," ","d","i","d">>) \o WB,
       to   |-> WB \o CS(<<"h","a","s"," ","d","o","n","e">>) \o WB]>>

\* isGrammarCorrection: grammarPatterns.some(...)
isGrammarCorrection(orig, sugg) ==
    \E i \in DOMAIN grammarPatterns :
        test(grammarPatterns[i].from, orig) /\ test(grammarPatterns[i].to, sugg)

\* getGrammarReason: the pairs it names are the 1st, 3rd and 5th of
\* grammarPatterns
getGrammarReason(orig, sugg) ==
    IF test(grammarPatterns[1].from, orig) /\ test(grammarPatterns[1].to, sugg)
    THEN "Subject-verb agreement: collective noun is singular"
    ELSE IF test(grammarPatterns[3].from, orig) /\ test(grammarPatterns[3].to, sugg)
    THEN "Possessive pronoun required"
    ELSE IF test(grammarPatterns[5].from, orig) /\ test(grammarPatterns[5].to, sugg)
    THEN "Correct past participle"
    ELSE "Grammar correction"

\* `improvements` of isWordChoiceImprovement
improvements ==
    <<<<<<"u","t","i","l","i","z","e">>, <<"u","s","e">>>>,
      <<<<"f","a","c","i","l","i","t","a","t","e">>, <<"h","e","l","p">>>>,
      <<<<"e","n","d","e","a","v","o","r">>, <<"t","r","y">>>>,
      <<<<"c","o","m","m","e","n","c","e">>, <<"s","t","a","r","t">>>>,
      <<<<"t","e","r","m","i","n","a","t","e">>, <<"e","n","d">>>>,
      <<<<"g","o","o","d">>, <<"e","x","c","e","l","l","e","n","t">>>>,
      <<<<"n","i","c","e">>, <<"p","l","e","a","s","a","n","t">>>>,
      <<<<"b","i","g">>, <<"s","u","b","s","t","a","n","t","i","a","l">>>>,
      <<<<"s","m","a","l","l">>, <<"m","i","n","i","m","a","l">>>>>>

RECURSIVE splitFrom(_, _, _)
\* text.split(/\s+/) from offset i on, `word` being the characters read
\* since the last run of whitespace
splitFrom(text, i, word) ==
    IF i >= Len(text) THEN <<word>>
    ELSE IF IsSpaceChar(text[i + 1])
    THEN <<word>> \o splitFrom(text, i + RunLength(SpaceChars, text, i), <<>>)
    ELSE splitFrom(text, i + 1, Append(word, text[i + 1]))

splitSpaces(text) == splitFrom(text, 0, <<>>)

\* isWordChoiceImprovement: some word of the original is a key of
\* `improvements` and the suggested word of the same index is its value
isWordChoiceImprovement(orig, sugg) ==
    LET originalWords  == splitSpaces(orig)
        suggestedWords == splitSpaces(sugg)
    IN  \E i \in DOMAIN originalWords :
            \E j \in DOMAIN improvements :
                /\ improvements[j][1] = originalWords[i]
                /\ i <= Len(suggestedWords)
                /\ suggestedWords[i] = improvements[j][2]

\* modificationReason with the length ratio tested before the word choice
modificationReasonLengthFirst(orig, sugg) ==
    IF isGrammarCorrection(toLowerCase(orig), toLowerCase(sugg))
    THEN getGrammarReason(toLowerCase(orig), toLowerCase(sugg))
    ELSE IF 2 * Len(orig) > 3 * Len(sugg) THEN "Simplifies expression"
    ELSE IF 2 * Len(sugg) > 3 * Len(orig) THEN "Adds more detail"
    ELSE IF isWordChoiceImprovement(toLowerCase(orig), toLowerCase(sugg))
    THEN "Improves word choice"
    ELSE "Enhances clarity"

\* the modification branch of getReasonForChange
modificationReason(orig, sugg) ==
    IF isGrammarCorrection(toLowerCase(orig), toLowerCase(sugg))
    THEN getGrammarReason(toLowerCase(orig), toLowerCase(sugg))
    ELSE IF isWordChoiceImprovement(toLowerCase(orig), toLowerCase(sugg))
    THEN "Improves word choice"
    ELSE IF 2 * Len(orig) > 3 * Len(sugg) THEN "Simplifies expression"
    ELSE IF 2 * Len(sugg) > 3 * Len(orig) THEN "Adds more detail"
    ELSE "Enhances clarity"

\* getReasonForChange with one label for every addition
getReasonForChangeOneAdditionLabel(type, orig, sugg) ==
    CASE type = "addition" -> "Adds additional context"
      [] type = "deletion" ->
             IF test(modifierWords, toLowerCase(orig))
             THEN "Removes unnecessary modifier" ELSE "Simplifies phrasing"
      [] type = "modification" -> modificationReason(orig, sugg)
      [] OTHER -> "Improves content"

\* getReasonForChange whose deletion branch has no label to fall through to
getReasonForChangeNoFallThrough(type, orig, sugg) ==
    CASE type = "addition" ->
             IF test(emphasisWords, toLowerCase(sugg))
             THEN "Adds descriptive emphasis" ELSE "Adds additional context"
      [] type = "deletion" ->
             IF test(modifierWords, toLowerCase(orig))
             THEN "Removes unnecessary modifier" ELSE ""
      [] type = "modification" -> modificationReason(orig, sugg)
      [] OTHER -> "Improves content"

\* getReasonForChange(type, original, suggested) on two strings
getReasonForChange(type, orig, sugg) ==
    CASE type = "addition" ->
             IF test(emphasisWords, toLowerCase(sugg))
             THEN "Adds descriptive emphasis" ELSE "Adds additional context"
      [] type = "deletion" ->
             IF test(modifierWords, toLowerCase(orig))
             THEN "Removes unnecessary modifier" ELSE "Simplifies phrasing"
      [] type = "modification" -> modificationReason(orig, sugg)
      [] OTHER -> "Improves content"

(***************************************************************************)
(* diffCalculator: tokenize.                                               *)
(***************************************************************************)
\* /(\w+|[^\w\s]+|\s+)/g
tokenRegex == OneOf(<<WordChars1, NeitherWordNorSpace1, Spaces1>>)

\* the regex as it would be without its \s+ alternative
tokenRegexNoSpaces == OneOf(<<WordChars1, NeitherWordNorSpace1>>)

\* `type` of a token: /^\w+$/, else /^\s+$/, else punctuation
tokenType(value) ==
    IF value # <<>> /\ \A i \in DOMAIN value : IsWordChar(value[i]) THEN "word"
    ELSE IF value # <<>> /\ \A i \in DOMAIN value : IsSpaceChar(value[i]) THEN "whitespace"
    ELSE "punctuation"

\* the token pushed for a match at `index` that ends at `end`
tokenOf(text, index, end) ==
    [value    |-> Slice(text, index, end),
     position |-> [start |-> index, end |-> index + Len(Slice(text, index, end))],
     type     |-> tokenType(Slice(text, index, end))]

RECURSIVE tokenizeExec(_, _, _)
\* the while loop: regex.exec(text) with regex.lastIndex = lastIndex, until
\* it returns null
tokenizeExec(regex, text, lastIndex) ==
    LET hits == MatchOffsets(regex, text, lastIndex)
    IN  IF hits = {} THEN <<>>
        ELSE LET index == CHOOSE p \in hits : \A q \in hits : p <= q
                 end   == MatchAt(regex, text, index, 0, 0).end
             IN  <<tokenOf(text, index, end)>> \o tokenizeExec(regex, text, end)

\* tokenize as it would be with a regex that has no \s+ alternative
tokenizeNoSpaces(text) == tokenizeExec(tokenRegexNoSpaces, text, 0)

tokenize(text) == tokenizeExec(tokenRegex, text, 0)

(***************************************************************************)
(* middleware/validation: validateRequest.  A field of the request body is *)
(* a JavaScript value [typeof, value]; `value` is the characters of a      *)
(* string or the spelling of any other value.                              *)
(***************************************************************************)
MAX_CONTENT_LENGTH == 10000

VALID_TYPES == {<<"i","m","p","r","o","v","e">>, <<"g","r","a","m","m","a","r">>,
                <<"s","i","m","p","l","i","f","y">>, <<"e","x","p","a","n","d">>}

JsUndefined == [typeof |-> "undefined", value |-> <<"undefined">>]

JsNull == [typeof |-> "object", value |-> <<"null">>]

JsString(chars) == [typeof |-> "string", value |-> chars]

JsNumber(spelling) == [typeof |-> "number", value |-> <<spelling>>]

JsBoolean(spelling) == [typeof |-> "boolean", value |-> <<spelling>>]

\* an object or an array, by its JSON text
JsObject(json) == [typeof |-> "object", value |-> <<json>>]

\* ToBoolean: undefined, null, "", 0, NaN and false are falsy
ToBoolean(v) ==
    CASE v.typeof = "undefined" -> FALSE
      [] v.typeof = "string" -> v.value # <<>>
      [] v.typeof = "number" -> v.value \notin {<<"0">>, <<"NaN">>}
      [] v.typeof = "boolean" -> v.value = <<"true">>
      [] OTHER -> v # JsNull

\* res.status(status).json({error: {code, message, ...}})
jsonResponse(status, code, message) ==
    [nextCalls |-> 0,
     responses |-> <<[status |-> status, code |-> code, message |-> message]>>]

\* next()
nextCalled == [nextCalls |-> 1, responses |-> <<>>]

\* validateRequest(req, res, next) on req.body = body: what it sent and how
\* often it called next
validateRequest(body) ==
    IF ~ToBoolean(body.content)
    THEN jsonResponse(400, "INVALID_REQUEST", "Content is required")
    ELSE IF body.content.typeof # "string"
    THEN jsonResponse(400, "INVALID_REQUEST", "Content must be a string")
    ELSE IF Len(body.content.value) > MAX_CONTENT_LENGTH
    THEN jsonResponse(400, "CONTENT_TOO_LONG", "Content exceeds maximum length")
    ELSE IF ~ToBoolean(body.type)
    THEN jsonResponse(400, "INVALID_REQUEST", "Type is required")
    ELSE IF ~(body.type.typeof = "string" /\ body.type.value \in VALID_TYPES)
    THEN jsonResponse(400, "INVALID_TYPE", "Invalid suggestion type")
    ELSE IF ToBoolean(body.context) /\ body.context.typeof # "object"
    THEN jsonResponse(400, "INVALID_REQUEST", "Context must be an object")
    ELSE nextCalled

(***************************************************************************)
(* diffCalculator: calculateWordDiff and mergeAdjacentChanges.             *)
(***************************************************************************)
\* uuidv4().substring(0, 8) of the k-th call: `draws` holds what the calls
\* return, in call order (and over again when the calls outnumber it)
uuidAt(draws, k) == draws[((k - 1) % Len(draws)) + 1]

\* additionRecord as it would be if an added part spanned its own length
\* (end: position + part.value.length, as the removed branch has it)
additionRecordSpanning(position, part, uuid) ==
    [id        |-> "chg_" \o uuid,
     type      |-> "addition",
     position  |-> [start |-> position, end |-> position + Len(part.value)],
     original  |-> <<>>,
     suggested |-> part.value,
     reason    |-> getReasonForChange("addition", <<>>, part.value)]

\* the record calculateWordDiff pushes for an added part
additionRecord(position, part, uuid) ==
    [id        |-> "chg_" \o uuid,
     type      |-> "addition",
     position  |-> [start |-> position, end |-> position],
     original  |-> <<>>,
     suggested |-> part.value,
     reason    |-> getReasonForChange("addition", <<>>, part.value)]

\* the record calculateWordDiff pushes for a removed part
deletionRecord(position, part, uuid) ==
    [id        |-> "chg_" \o uuid,
     type      |-> "deletion",
     position  |-> [start |-> position, end |-> position + Len(part.value)],
     original  |-> part.value,
     suggested |-> <<>>,
     reason    |-> getReasonForChange("deletion", part.value, <<>>)]

\* `position` after the loop body has handled `part`: added parts leave it
\* alone, removed and unchanged parts advance it by the part's length
advance(position, part) ==
    IF part.added THEN position ELSE position + Len(part.value)

\* how many uuids were drawn once the loop body has handled `part`, k
\* having been drawn before: one for an added or a removed part
drawn(k, part) == IF part.added \/ part.removed THEN k + 1 ELSE k

RECURSIVE walkDiffUnshift(_, _, _, _, _)
\* the loop as it would be with changes.unshift(...) in place of
\* changes.push(...): the records come out in reverse part order
walkDiffUnshift(diff, i, position, draws, k) ==
    IF i > Len(diff) THEN <<>>
    ELSE LET part == diff[i]
             here == IF part.added
                     THEN <<additionRecord(position, part, uuidAt(draws, k + 1))>>
                     ELSE IF part.removed
                     THEN <<deletionRecord(position, part, uuidAt(draws, k + 1))>>
                     ELSE <<>>
         IN  walkDiffUnshift(diff, i + 1, advance(position, part), draws,
                             drawn(k, part)) \o here

RECURSIVE walkDiff(_, _, _, _, _)
\* the for loop of calculateWordDiff from part i on, with the cursor at
\* `position` and k uuids drawn so far
walkDiff(diff, i, position, draws, k) ==
    IF i > Len(diff) THEN <<>>
    ELSE LET part == diff[i]
             here == IF part.added
                     THEN <<additionRecord(position, part, uuidAt(draws, k + 1))>>
                     ELSE IF part.removed
                     THEN <<deletionRecord(position, part, uuidAt(draws, k + 1))>>
                     ELSE <<>>
         IN  here \o walkDiff(diff, i + 1, advance(position, part), draws,
                              drawn(k, part))

\* the test as it would be if it took the two types in either order
mergeableEitherOrder(changeList, i) ==
    /\ i + 1 <= Len(changeList)
    /\ {changeList[i].type, changeList[i + 1].type} = {"deletion", "addition"}
    /\ changeList[i + 1].position.start = changeList[i].position.start

\* the test of mergeAdjacentChanges: a deletion followed by an addition
\* that starts where the deletion starts
mergeable(changeList, i) ==
    /\ changeList[i].type = "deletion"
    /\ i + 1 <= Len(changeList)
    /\ changeList[i + 1].type = "addition"
    /\ changeList[i + 1].position.start = changeList[i].position.start

RECURSIVE mergeFrom(_, _, _, _)
\* the while loop of mergeAdjacentChanges from changes[i] on, k uuids
\* having been drawn so far
mergeFrom(changeList, i, draws, k) ==
    IF i > Len(changeList) THEN <<>>
    ELSE IF mergeable(changeList, i)
    THEN <<[id        |-> "chg_" \o uuidAt(draws, k + 1),
            type      |-> "modification",
            position  |-> changeList[i].position,
            original  |-> changeList[i].original,
            suggested |-> changeList[i + 1].suggested,
            reason    |-> getReasonForChange("modification",
                                             changeList[i].original,
                                             changeList[i + 1].suggested)]>>
         \o mergeFrom(changeList, i + 2, draws, k + 1)
    ELSE <<changeList[i]>> \o mergeFrom(changeList, i + 1, draws, k)

\* mergeAdjacentChanges(changes), called when the loop has drawn one uuid
\* for each record of `changes`
mergeAdjacentChanges(changeList, draws) ==
    mergeFrom(changeList, 1, draws, Len(changeList))

\* `changes` of calculateWordDiff when the loop ends
unmergedChanges(orig, sugg, draws) == walkDiff(diffWords(orig, sugg), 1, 0, draws, 0)

calculateWordDiff(orig, sugg, draws) ==
    mergeAdjacentChanges(unmergedChanges(orig, sugg, draws), draws)

(***************************************************************************)
(* suggestionRules: the replacement tables and the four rule lists.        *)
(***************************************************************************)
\* `replacements` of 'Enhance weak adjectives', in insertion order
weakAdjectives ==
    <<
        <<<<"g","o","o","d">>,
          <<"e","x","c","e","l","l","e","n","t">>>>,
        <<<<"n","i","c","e">>,
          <<"e","x","c","e","p","t","i","o","n","a","l">>>>,
        <<<<"b","i","g">>,
          <<"s","u","b","s","t","a","n","t","i","a","l">>>>,
        <<<<"s","m","a","l","l">>,
          <<"m","i","n","i","m","a","l">>>>,
        <<<<"f","a","s","t">>,
          <<"l","i","g","h","t","n","i","n","g","-","f","a","s","t">>>>,
        <<<<"s","l","o","w">>,
          <<"d","e","l","i","b","e","r","a","t","e">>>>,
        <<<<"b","a","d">>,
          <<"s","u","b","o","p","t","i","m","a","l">>>>,
        <<<<"v","e","r","y"," ","g","o","o","d">>,
          <<"o","u","t","s","t","a","n","d","i","n","g">>>>,
        <<<<"p","r","e","t","t","y"," ","g","o","o","d">>,
          <<"i","m","p","r","e","s","s","i","v","e">>>>
    >>

\* `enhancements` of 'Add professional modifiers'
professionalNouns ==
    <<
        <<<<"s","o","l","u","t","i","o","n">>,
          <<"i","n","n","o","v","a","t","i","v","e"," ","s","o","l","u","t","i","o","n">>>>,
        <<<<"p","r","o","d","u","c","t">>,
          <<"c","u","t","t","i","n","g","-","e","d","g","e"," ","p","r","o","d","u","c","t">>>>,
        <<<<"s","e","r","v","i","c","e">>,
          <<"p","r","e","m","i","u","m"," ","s","e","r","v","i","c","e">>>>,
        <<<<"a","p","p","r","o","a","c","h">>,
          <<"s","t","r","a","t","e","g","i","c"," ","a","p","p","r","o","a","c","h">>>>
    >>

\* the replacements of 'Expand abbreviated forms'
abbreviatedForms ==
    <<
        <<<<"a","p","p">>,
          <<"a","p","p","l","i","c","a","t","i","o","n">>>>,
        <<<<"i","n","f","o">>,
          <<"i","n","f","o","r","m","a","t","i","o","n">>>>,
        <<<<"p","i","c">>,
          <<"p","i","c","t","u","r","e">>>>
    >>

\* the replacements of 'Past participle corrections'
pastParticiples ==
    <<
        <<<<"h","a","s"," ","w","e","n","t">>,
          <<"h","a","s"," ","g","o","n","e">>>>,
        <<<<"h","a","s"," ","d","i","d">>,
          <<"h","a","s"," ","d","o","n","e">>>>,
        <<<<"h","a","s"," ","r","a","n">>,
          <<"h","a","s"," ","r","u","n">>>>,
        <<<<"h","a","s"," ","c","a","m","e">>,
          <<"h","a","s"," ","c","o","m","e">>>>
    >>

\* the replacements of 'Double negatives'
doubleNegatives ==
    <<
        <<<<"d","o","n","'","t"," ","h","a","v","e"," ","n","o">>,
          <<"d","o","n","'","t"," ","h","a","v","e"," ","a","n","y">>>>,
        <<<<"c","a","n","'","t"," ","h","a","r","d","l","y">>,
          <<"c","a","n"," ","h","a","r","d","l","y">>>>,
        <<<<"w","o","n","'","t"," ","n","e","v","e","r">>,
          <<"w","i","l","l"," ","n","e","v","e","r">>>>
    >>

\* `replacements` of 'Replace complex words', in insertion order
complexWords ==
    <<
        <<<<"u","t","i","l","i","z","e">>,
          <<"u","s","e">>>>,
        <<<<"f","a","c","i","l","i","t","a","t","e">>,
          <<"h","e","l","p">>>>,
        <<<<"e","n","d","e","a","v","o","r">>,
          <<"t","r","y">>>>,
        <<<<"c","o","m","m","e","n","c","e">>,
          <<"s","t","a","r","t">>>>,
        <<<<"t","e","r","m","i","n","a","t","e">>,
          <<"e","n","d">>>>,
        <<<<"d","e","m","o","n","s","t","r","a","t","e">>,
          <<"s","h","o","w">>>>,
        <<<<"s","u","f","f","i","c","i","e","n","t">>,
          <<"e","n","o","u","g","h">>>>,
        <<<<"s","u","b","s","e","q","u","e","n","t","l","y">>,
          <<"l","a","t","e","r">>>>,
        <<<<"p","r","i","o","r"," ","t","o">>,
          <<"b","e","f","o","r","e">>>>,
        <<<<"i","n"," ","o","r","d","e","r"," ","t","o">>,
          <<"t","o">>>>,
        <<<<"d","u","e"," ","t","o"," ","t","h","e"," ","f","a","c","t"," ","t","h","a","t">>,
          <<"b","e","c","a","u","s","e">>>>,
        <<<<"a","t"," ","t","h","i","s"," ","p","o","i","n","t"," ","i","n"," ","t","i","m","e">>,
          <<"n","o","w">>>>,
        <<<<"i","n"," ","t","h","e"," ","e","v","e","n","t"," ","t","h","a","t">>,
          <<"i","f">>>>,
        <<<<"w","i","t","h"," ","r","e","g","a","r","d"," ","t","o">>,
          <<"a","b","o","u","t">>>>,
        <<<<"m","e","t","h","o","d","o","l","o","g","y">>,
          <<"m","e","t","h","o","d">>>>,
        <<<<"i","m","p","l","e","m","e","n","t">>,
          <<"d","o">>>>,
        <<<<"o","p","t","i","m","i","z","a","t","i","o","n">>,
          <<"i","m","p","r","o","v","e","m","e","n","t">>>>,
        <<<<"s","t","a","t","e","-","o","f","-","t","h","e","-","a","r","t">>,
          <<"m","o","d","e","r","n">>>>,
        <<<<"c","u","t","t","i","n","g","-","e","d","g","e">>,
          <<"a","d","v","a","n","c","e","d">>>>,
        <<<<"r","e","v","o","l","u","t","i","o","n","a","r","y">>,
          <<"n","e","w">>>>
    >>

\* the words 'Remove unnecessary modifiers' deletes with the whitespace after them
unnecessaryModifiers ==
    <<
        <<<<"v","e","r","y">>,
          <<>>>>,
        <<<<"r","e","a","l","l","y">>,
          <<>>>>,
        <<<<"q","u","i","t","e">>,
          <<>>>>,
        <<<<"j","u","s","t">>,
          <<>>>>,
        <<<<"a","c","t","u","a","l","l","y">>,
          <<>>>>,
        <<<<"b","a","s","i","c","a","l","l","y">>,
          <<>>>>
    >>

\* the replacements of 'Simplify compound words'
compoundPhrases ==
    <<
        <<<<"i","n"," ","a","c","c","o","r","d","a","n","c","e"," ","w","i","t","h">>,
          <<"f","o","l","l","o","w","i","n","g">>>>,
        <<<<"f","o","r"," ","t","h","e"," ","p","u","r","p","o","s","e"," ","o","f">>,
          <<"t","o">>>>,
        <<<<"i","n"," ","s","p","i","t","e"," ","o","f"," ","t","h","e"," ","f","a","c","t"," ","t","h","a","t">>,
          <<"a","l","t","h","o","u","g","h">>>>,
        <<<<"b","y"," ","m","e","a","n","s"," ","o","f">>,
          <<"b","y">>>>
    >>

\* `expansions` of 'Add descriptive details'
descriptiveDetails ==
    <<
        <<<<"f","a","s","t">>,
          <<"f","a","s","t",","," ","w","i","t","h"," ","r","e","s","p","o","n","s","e"," ","t","i","m","e","s"," ","u","n","d","e","r"," ","1","0","0","m","s">>>>,
        <<<<"e","a","s","y">>,
          <<"e","a","s","y"," ","t","o"," ","u","s","e",","," ","w","i","t","h"," ","a","n"," ","i","n","t","u","i","t","i","v","e"," ","i","n","t","e","r","f","a","c","e">>>>,
        <<<<"p","o","w","e","r","f","u","l">>,
          <<"p","o","w","e","r","f","u","l",","," ","c","a","p","a","b","l","e"," ","o","f"," ","h","a","n","d","l","i","n","g"," ","c","o","m","p","l","e","x"," ","w","o","r","k","f","l","o","w","s">>>>,
        <<<<"r","e","l","i","a","b","l","e">>,
          <<"r","e","l","i","a","b","l","e",","," ","w","i","t","h"," ","9","9",".","9","%"," ","u","p","t","i","m","e">>>>,
        <<<<"s","e","c","u","r","e">>,
          <<"s","e","c","u","r","e",","," ","u","s","i","n","g"," ","i","n","d","u","s","t","r","y","-","s","t","a","n","d","a","r","d"," ","e","n","c","r","y","p","t","i","o","n">>>>,
        <<<<"e","f","f","i","c","i","e","n","t">>,
          <<"e","f","f","i","c","i","e","n","t",","," ","o","p","t","i","m","i","z","i","n","g"," ","r","e","s","o","u","r","c","e"," ","u","s","a","g","e">>>>
    >>

\* the replacements of 'Expand abbreviations with context' (case-sensitive)
abbreviations ==
    <<
        <<<<"A","P","I">>,
          <<"A","P","I"," ","(","A","p","p","l","i","c","a","t","i","o","n"," ","P","r","o","g","r","a","m","m","i","n","g"," ","I","n","t","e","r","f","a","c","e",")">>>>,
        <<<<"U","I">>,
          <<"U","I"," ","(","U","s","e","r"," ","I","n","t","e","r","f","a","c","e",")">>>>,
        <<<<"U","X">>,
          <<"U","X"," ","(","U","s","e","r"," ","E","x","p","e","r","i","e","n","c","e",")">>>>,
        <<<<"C","T","A">>,
          <<"C","T","A"," ","(","C","a","l","l"," ","T","o"," ","A","c","t","i","o","n",")">>>>
    >>

\* the replacements of 'Add quantitative details'
quantitativeDetails ==
    <<
        <<<<"m","a","n","y"," ","u","s","e","r","s">>,
          <<"o","v","e","r"," ","1","0",",","0","0","0"," ","u","s","e","r","s">>>>,
        <<<<"q","u","i","c","k"," ","r","e","s","p","o","n","s","e">>,
          <<"r","e","s","p","o","n","s","e"," ","i","n"," ","u","n","d","e","r"," ","2"," ","s","e","c","o","n","d","s">>>>,
        <<<<"l","a","r","g","e"," ","d","a","t","a","b","a","s","e">>,
          <<"d","a","t","a","b","a","s","e"," ","w","i","t","h"," ","m","i","l","l","i","o","n","s"," ","o","f"," ","r","e","c","o","r","d","s">>>>
    >>

\* new RegExp(before + from + after, flags) and the replacement, for every
\* entry of a table
Replacements(table, before, after, ci) ==
    [i \in DOMAIN table |->
        [pattern  |-> before \o (IF ci THEN CI(table[i][1]) ELSE CS(table[i][1]))
                             \o after,
         template |-> Literal(table[i][2])]]

\* /\b(team|group|committee|company)/ as capture group 1
collectiveNoun ==
    WB \o Group(OneOf(<<CI(<<"t","e","a","m">>), CI(<<"g","r","o","u","p">>),
                        CI(<<"c","o","m","m","i","t","t","e","e">>),
                        CI(<<"c","o","m","p","a","n","y">>)>>))

subjectVerbAgreement ==
    <<[pattern  |-> collectiveNoun \o CI(<<" ","a","r","e">>) \o WB,
       template |-> Ref1 \o Literal(<<" ","i","s">>)],
      [pattern  |-> collectiveNoun \o CI(<<" ","w","e","r","e">>) \o WB,
       template |-> Ref1 \o Literal(<<" ","w","a","s">>)]>>

possessiveVsContraction ==
    <<[pattern  |-> WB \o CI(<<"t","h","e","y","r","e">>) \o Spaces1 \o Group(WordChars1),
       template |-> Literal(<<"t","h","e","i","r"," ">>) \o Ref1],
      [pattern  |-> WB \o CI(<<"i","t","s">>) \o Spaces1 \o NotFollowedBy(CI(<<"a">>) \o WB),
       template |-> Literal(<<"i","t","'","s"," ">>)]>>

articleUsage ==
    <<[pattern  |-> WB \o CI(<<"a">>) \o Spaces1 \o Group(ClassCI(<<"a","e","i","o","u">>)),
       template |-> Literal(<<"a","n"," ">>) \o Ref1],
      [pattern  |-> WB \o CI(<<"a","n">>) \o Spaces1 \o Group(NotClassCI(<<"a","e","i","o","u">>)),
       template |-> Literal(<<"a"," ">>) \o Ref1]>>

commaSplice ==
    <<[pattern  |-> Spaces0 \o CS(<<",">>) \o Spaces0 \o CI(<<"a","n","d">>) \o Spaces1,
       template |-> Literal(<<","," ","a","n","d"," ">>)],
      [pattern  |-> Spaces0 \o CS(<<",">>) \o Spaces0 \o CI(<<"b","u","t">>) \o Spaces1,
       template |-> Literal(<<","," ","b","u","t"," ">>)]>>

enhanceWeakAdjectives == Replacements(weakAdjectives, WB, WB, TRUE)

replaceBasic ==
    <<[pattern  |-> WB \o CI(<<"b","a","s","i","c">>) \o WB,
       template |-> Literal(<<"c","o","m","p","r","e","h","e","n","s","i","v","e">>)]>>

\* new RegExp(`(?<!\\w )\\b${noun}\\b`, 'gi')
addProfessionalModifiers ==
    Replacements(professionalNouns,
                 NotPrecededBy(AWordChar \o CS(<<" ">>)) \o WB, WB, TRUE)

expandAbbreviatedForms == Replacements(abbreviatedForms, WB, WB, TRUE)

pastParticipleCorrections == Replacements(pastParticiples, WB, WB, TRUE)

doubleNegativeFixes == Replacements(doubleNegatives, WB, WB, TRUE)

replaceComplexWords == Replacements(complexWords, WB, WB, TRUE)

removeUnnecessaryModifiers == Replacements(unnecessaryModifiers, WB, Spaces1, TRUE)

simplifyCompoundWords == Replacements(compoundPhrases, WB, WB, TRUE)

\* new RegExp(`\\b${simple}\\b(?!,)`, 'gi')
addDescriptiveDetails ==
    Replacements(descriptiveDetails, WB, WB \o NotFollowedBy(CS(<<",">>)), TRUE)

expandAbbreviations == Replacements(abbreviations, WB, WB, FALSE)

addQuantitativeDetails == Replacements(quantitativeDetails, WB, WB, TRUE)

featureWord == WB \o CI(<<"f","e","a","t","u","r","e">>)

suchAsPhrase == WB \o CI(<<"s","u","c","h"," ","a","s">>) \o WB

benefitWord == WB \o CI(<<"b","e","n","e","f","i","t">>)

includingWord == WB \o CI(<<"i","n","c","l","u","d","i","n","g">>) \o WB

RECURSIVE replaceEach(_, _)
\* the replacements applied one after another, each to the result of the
\* one before
replaceEach(text, replacements) ==
    IF replacements = <<>> \/ text = <<>> THEN text
    ELSE replaceEach(replaceAll(text, Head(replacements).pattern,
                                Head(replacements).template),
                     Tail(replacements))

\* apply of 'Add examples'
addExamples(text) ==
    IF test(featureWord, text) /\ ~test(suchAsPhrase, text)
    THEN replaceFirst(text, featureWord,
                      Literal(<<"f","e","a","t","u","r","e",","," ","s","u","c","h"," ","a","s"," ","r","e","a","l","-","t","i","m","e"," ","c","o","l","l","a","b","o","r","a","t","i","o","n">>))
    ELSE IF test(benefitWord, text) /\ ~test(includingWord, text)
    THEN replaceFirst(text, benefitWord,
                      Literal(<<"b","e","n","e","f","i","t",","," ","i","n","c","l","u","d","i","n","g"," ","i","n","c","r","e","a","s","e","d"," ","p","r","o","d","u","c","t","i","v","i","t","y">>))
    ELSE text

improvementRules ==
    <<"Enhance weak adjectives", "Replace basic with comprehensive",
      "Add professional modifiers", "Expand abbreviated forms">>

grammarRules ==
    <<"Subject-verb agreement (collective nouns)", "Possessive vs contraction",
      "Past participle corrections", "Article usage", "Double negatives",
      "Comma splice fixes">>

simplificationRules ==
    <<"Replace complex words", "Remove unnecessary modifiers",
      "Simplify compound words">>

expansionRules ==
    <<"Add descriptive details", "Expand abbreviations with context",
      "Add examples", "Add quantitative details">>

\* the length 'Add examples' compares text.length with
ShortContentLimit == 200

\* rule.condition && !rule.condition(result, context) is false: the rule
\* has no condition, or its condition holds
conditionHolds(rule, text, context) ==
    CASE rule = "Add professional modifiers" -> context.tone = "professional"
      [] rule = "Add examples" -> Len(text) < ShortContentLimit
      [] OTHER -> TRUE

\* rule.apply(text, context) on a string
ruleApply(rule, text) ==
    CASE rule = "Enhance weak adjectives" -> replaceEach(text, enhanceWeakAdjectives)
      [] rule = "Replace basic with comprehensive" -> replaceEach(text, replaceBasic)
      [] rule = "Add professional modifiers" -> replaceEach(text, addProfessionalModifiers)
      [] rule = "Expand abbreviated forms" -> replaceEach(text, expandAbbreviatedForms)
      [] rule = "Subject-verb agreement (collective nouns)" ->
             replaceEach(text, subjectVerbAgreement)
      [] rule = "Possessive vs contraction" -> replaceEach(text, possessiveVsContraction)
      [] rule = "Past participle corrections" -> replaceEach(text, pastParticipleCorrections)
      [] rule = "Article usage" -> replaceEach(text, articleUsage)
      [] rule = "Double negatives" -> replaceEach(text, doubleNegativeFixes)
      [] rule = "Comma splice fixes" -> replaceEach(text, commaSplice)
      [] rule = "Replace complex words" -> replaceEach(text, replaceComplexWords)
      [] rule = "Remove unnecessary modifiers" -> replaceEach(text, removeUnnecessaryModifiers)
      [] rule = "Simplify compound words" -> replaceEach(text, simplifyCompoundWords)
      [] rule = "Add descriptive details" -> replaceEach(text, addDescriptiveDetails)
      [] rule = "Expand abbreviations with context" -> replaceEach(text, expandAbbreviations)
      [] rule = "Add examples" -> addExamples(text)
      [] rule = "Add quantitative details" -> replaceEach(text, addQuantitativeDetails)

(***************************************************************************)
(* suggestionService: generateSuggestions and its helpers.  A JavaScript   *)
(* value is [typeof, value]; a call either returns a value or throws.      *)
(***************************************************************************)
Str(chars) == [typeof |-> "string", value |-> chars]

\* a content that is no string (validateRequest lets none through, the
\* function itself accepts any value)
NotAString == [typeof |-> "number", value |-> <<>>]

Returned(v) == [threw |-> FALSE, value |-> v, message |-> ""]

Threw(msg) == [threw |-> TRUE, value |-> <<>>, message |-> msg]

Categories == {"improve", "grammar", "simplify", "expand"}

\* selectRules as it would be with `default: return improvementRules`
selectRulesWithDefault(type) ==
    CASE type = "grammar" -> Returned(grammarRules)
      [] type = "simplify" -> Returned(simplificationRules)
      [] type = "expand" -> Returned(expansionRules)
      [] OTHER -> Returned(improvementRules)

\* selectRules: the rule list of the type, or `throw new Error(...)`
selectRules(type) ==
    CASE type = "improve" -> Returned(improvementRules)
      [] type = "grammar" -> Returned(grammarRules)
      [] type = "simplify" -> Returned(simplificationRules)
      [] type = "expand" -> Returned(expansionRules)
      [] OTHER -> Threw("Unknown suggestion type: " \o type)

\* the TypeError of calling .replace on a value that is no string, as the
\* rule names the receiver
replaceTypeError(rule) ==
    IF rule \in {"Enhance weak adjectives", "Add professional modifiers",
                 "Replace complex words", "Add descriptive details"}
    THEN "result.replace is not a function"
    ELSE "text.replace is not a function"

\* rule.condition(result, context) where the rule has one
ruleCondition(rule, v, context) ==
    IF rule = "Add examples"
    THEN v.typeof = "string" /\ conditionHolds(rule, v.value, context)
    ELSE conditionHolds(rule, <<>>, context)

RECURSIVE applyRulesOnContentFrom(_, _, _, _, _)
\* the for loop with every condition called on the content it was given
\* instead of on `result`
applyRulesOnContentFrom(content, v, rules, i, context) ==
    IF i > Len(rules) THEN Returned(v)
    ELSE IF ~ruleCondition(rules[i], content, context)
    THEN applyRulesOnContentFrom(content, v, rules, i + 1, context)
    ELSE IF v.typeof # "string" THEN Threw(replaceTypeError(rules[i]))
    ELSE applyRulesOnContentFrom(content, Str(ruleApply(rules[i], v.value)),
                                 rules, i + 1, context)

applyRulesConditionOnContent(content, rules, context) ==
    applyRulesOnContentFrom(content, content, rules, 1, context)

RECURSIVE applyRulesFrom(_, _, _, _)
\* the for loop of applyRules from the i-th rule on
applyRulesFrom(v, rules, i, context) ==
    IF i > Len(rules) THEN Returned(v)
    ELSE IF ~ruleCondition(rules[i], v, context)
    THEN applyRulesFrom(v, rules, i + 1, context)
    ELSE IF v.typeof # "string" THEN Threw(replaceTypeError(rules[i]))
    ELSE applyRulesFrom(Str(ruleApply(rules[i], v.value)), rules, i + 1, context)

applyRules(content, rules, context) == applyRulesFrom(content, rules, 1, context)

\* getModelName
getModelName(type) ==
    CASE type = "improve" -> "improvement-v1"
      [] type = "grammar" -> "grammar-check-v1"
      [] type = "simplify" -> "simplification-v1"
      [] type = "expand" -> "expansion-v1"
      [] OTHER -> "unknown"

\* the size above which a change adds to sizePenalty
LargeChangeSize == 20

\* calculateConfidence without the early return for an empty list
calculateConfidenceNoEmptyCase(changeList) ==
    Max(50, 95 - 2 * Len(changeList)
               - Cardinality({i \in DOMAIN changeList :
                                 Max(Len(changeList[i].original),
                                     Len(changeList[i].suggested)) > LargeChangeSize}))

\* calculateConfidence with `size >= 20` as the test of a large change
calculateConfidenceFrom20(changeList) ==
    IF Len(changeList) = 0 THEN 100
    ELSE Max(50, 95 - 2 * Len(changeList)
                    - Cardinality({i \in DOMAIN changeList :
                                      Max(Len(changeList[i].original),
                                          Len(changeList[i].suggested)) >= LargeChangeSize}))

\* calculateConfidence with the size penalty added instead of subtracted
calculateConfidenceSizeBonus(changeList) ==
    IF Len(changeList) = 0 THEN 100
    ELSE Max(50, 95 - 2 * Len(changeList)
                    + Cardinality({i \in DOMAIN changeList :
                                      Max(Len(changeList[i].original),
                                          Len(changeList[i].suggested)) > LargeChangeSize}))

\* calculateConfidence, in hundredths (1.0 is 100): 0.95 less 0.02 for
\* every change and 0.01 for every large one, at least 0.5
calculateConfidence(changeList) ==
    IF Len(changeList) = 0 THEN 100
    ELSE LET large == {i \in DOMAIN changeList :
                          Max(Len(changeList[i].original),
                              Len(changeList[i].suggested)) > LargeChangeSize}
         IN  Max(50, 95 - 2 * Len(changeList) - Cardinality(large))

\* the object literal `suggestion`
suggestionObject(content, sugg, changeList, type, uuid, now) ==
    [id        |-> "sug_" \o uuid,
     original  |-> content,
     suggested |-> sugg,
     changes   |-> changeList,
     metadata  |-> [timestamp  |-> now,
                    model      |-> getModelName(type),
                    confidence |-> calculateConfidence(changeList)]]

\* the try block once applyRules has ended: what it threw, or the
\* suggestion built from the diff of content and suggested
diffAndBuild(content, applied, type, draws, uuid, now) ==
    IF applied.threw THEN applied
    ELSE Returned(suggestionObject(
             content.value, applied.value.value,
             calculateWordDiff(content.value, applied.value.value, draws),
             type, uuid, now))

\* the try block once selectRules has ended
applyAndBuild(content, rules, type, context, draws, uuid, now) ==
    IF rules.threw THEN rules
    ELSE diffAndBuild(content, applyRules(content, rules.value, context),
                      type, draws, uuid, now)

\* the try block of generateSuggestions: the suggestion, or what one of
\* its calls threw
generateBody(content, type, context, draws, uuid, now) ==
    applyAndBuild(content, selectRules(type), type, context, draws, uuid, now)

\* the object the catch block throws
generationFailed(message) ==
    [status  |-> 500,
     code    |-> "GENERATION_FAILED",
     message |-> "Failed to generate suggestions",
     details |-> [reason |-> message]]

\* the outcome of a body no catch block wraps: what it threw reaches the
\* caller as it is, an Error with a message and no code
uncaught(body) ==
    IF body.threw
    THEN [threw |-> TRUE, value |-> <<>>,
          error |-> [status |-> 0, code |-> "undefined",
                     message |-> body.message, details |-> [reason |-> ""]]]
    ELSE [threw |-> FALSE, value |-> body.value, error |-> <<>>]

\* generateSuggestions as it would be without the try/catch
generateSuggestionsUnwrapped(content, type, context, draws, uuid, now) ==
    uncaught(generateBody(content, type, context, draws, uuid, now))

\* try { ... return suggestion } catch (error) { throw {...} }
tryCatch(body) ==
    IF body.threw
    THEN [threw |-> TRUE, value |-> <<>>, error |-> generationFailed(body.message)]
    ELSE [threw |-> FALSE, value |-> body.value, error |-> <<>>]

\* generateSuggestions: [threw, value, error]
generateSuggestions(content, type, context, draws, uuid, now) ==
    tryCatch(generateBody(content, type, context, draws, uuid, now))

(***************************************************************************)
(* Specification SpecDiff: calculateWordDiff on every pair of bounded      *)
(* texts, then applyChangesToContent on every arrangement (a subset, in    *)
(* any order) of the records it returned.                                  *)
(***************************************************************************)
NoText == <<"?">>

NoSuggestion ==
    [id |-> "", original |-> <<>>, suggested |-> <<>>, changes |-> <<>>,
     metadata |-> [timestamp |-> "", model |-> "", confidence |-> 0]]

NoError == [status |-> 0, code |-> "none", message |-> "", details |-> [reason |-> ""]]

\* the lists of distinct indices into a list of n records
Arrangements(n) ==
    {s \in UNION {[1..k -> 1..n] : k \in 0..n} :
        \A i, j \in DOMAIN s : i # j => s[i] # s[j]}

\* what the calls of uuidv4().substring(0, 8) return during one call of
\* calculateWordDiff: eight different values, or the same value twice
DistinctDraws ==
    <<"1b9d6bcd", "6ec0bd7f", "a3bb189e", "9c5b94b1",
      "3d6f4a27", "e02fd0e4", "7c9e6679", "f47ac10b">>

RepeatedDraws ==
    <<"1b9d6bcd", "1b9d6bcd", "a3bb189e", "9c5b94b1",
      "3d6f4a27", "e02fd0e4", "7c9e6679", "f47ac10b">>

UuidDraws == {DistinctDraws, RepeatedDraws}

\* the same two words with one space and with two between them
SpacedTexts == {<<"a", " ", "b">>, <<"a", " ", " ", "b">>}

InitDiff ==
    /\ phase = "input"
    /\ original \in Texts \cup SpacedTexts
    /\ suggested \in Texts \cup SpacedTexts
    /\ parts = <<>>
    /\ rawChanges = <<>>
    /\ changes = <<>>
    /\ accepted = <<>>
    /\ result = NoText
    /\ error = NoError
    /\ contentArg = Str(<<>>)
    /\ typeArg = ""
    /\ contextArg = [tone |-> "undefined"]
    /\ suggestion = NoSuggestion
    /\ Unmounted

\* calculateWordDiff(original, suggested)
CalculateWordDiff ==
    /\ phase = "input"
    /\ parts' = diffWords(original, suggested)
    /\ \E draws \in UuidDraws :
          /\ rawChanges' = walkDiff(parts', 1, 0, draws, 0)
          /\ changes' = mergeAdjacentChanges(rawChanges', draws)
    /\ phase' = "diffed"
    /\ UNCHANGED <<original, suggested, accepted, result, error, contentArg,
                   typeArg, contextArg, suggestion>>
    /\ UNCHANGED componentState

\* applyChangesToContent(original, some of the changes in some order)
ApplyChangesToContent ==
    /\ phase = "diffed"
    /\ \E order \in Arrangements(Len(changes)) :
          /\ accepted' = [i \in DOMAIN order |-> changes[order[i]]]
          /\ result' = applyChangesToContent(original, accepted')
    /\ error' = NoError
    /\ phase' = "applied"
    /\ UNCHANGED <<original, suggested, parts, rawChanges, changes, contentArg,
                   typeArg, contextArg, suggestion>>
    /\ UNCHANGED componentState

NextDiff == CalculateWordDiff \/ ApplyChangesToContent

SpecDiff == InitDiff /\ [][NextDiff]_vars

(***************************************************************************)
(* Specification SpecReconcile: applyChangesToContent on any list of up to *)
(* MaxAccepted well-shaped records over a bounded text, whether or not     *)
(* their ranges overlap.                                                   *)
(***************************************************************************)
MaxAccepted == 2

Inserted == {<<"b">>, <<"a", " ">>}

\* the well-shaped records over a text
RecordsOver(text) ==
    {[type |-> "addition", position |-> [start |-> p, end |-> p],
      original |-> <<>>, suggested |-> ins] :
        p \in 0..Len(text), ins \in Inserted}
    \cup
    {[type |-> "deletion", position |-> [start |-> r[1], end |-> r[2]],
      original |-> Slice(text, r[1], r[2]), suggested |-> <<>>] :
        r \in {q \in (0..Len(text)) \X (0..Len(text)) : q[1] < q[2]}}
    \cup
    {[type |-> "modification", position |-> [start |-> r[1], end |-> r[2]],
      original |-> Slice(text, r[1], r[2]), suggested |-> <<"b">>] :
        r \in {q \in (0..Len(text)) \X (0..Len(text)) : q[1] < q[2]}}

InitReconcile ==
    /\ phase = "input"
    /\ original \in Texts
    /\ suggested = NoText
    /\ parts = <<>>
    /\ rawChanges = <<>>
    /\ changes = <<>>
    /\ accepted \in UNION {[1..k -> RecordsOver(original)] : k \in 0..MaxAccepted}
    /\ result = NoText
    /\ error = NoError
    /\ contentArg = Str(<<>>)
    /\ typeArg = ""
    /\ contextArg = [tone |-> "undefined"]
    /\ suggestion = NoSuggestion
    /\ Unmounted

\* applyChangesToContent(original, accepted): it has no throw statement
\* and always returns the spliced string
Reconcile ==
    /\ phase = "input"
    /\ result' = applyChangesToContent(original, accepted)
    /\ error' = NoError
    /\ phase' = "applied"
    /\ UNCHANGED <<original, suggested, parts, rawChanges, changes, accepted,
                   contentArg, typeArg, contextArg, suggestion>>
    /\ UNCHANGED componentState

NextReconcile == Reconcile

SpecReconcile == InitReconcile /\ [][NextReconcile]_vars

(***************************************************************************)
(* Specification SpecGen: generateSuggestions on every content made of up  *)
(* to MaxWords entries of a lexicon (and on a content that is no string),  *)
(* every category and an unknown one, then applyChangesToContent with the  *)
(* whole changes list of the suggestion it returned.                       *)
(***************************************************************************)
MaxWords == 3

Lexicon ==
    {<<" ">>, <<" "," ">>, <<",">>, <<"a","n","d">>, <<"v","e","r","y">>, <<"g","o","o","d">>,
     <<"t","e","a","m">>, <<"a","r","e">>, <<"f","a","s","t">>}

\* the two examples of generateSuggestions the documentation gives
GrammarScenario ==
    <<"T","h","e"," ","t","e","a","m"," ","a","r","e"," ","w","o","r","k","i","n","g",
      " ","o","n"," ","i","t",".">>

SimplifyScenario ==
    <<"W","e"," ","u","t","i","l","i","z","e"," ","s","t","a","t","e","-","o","f","-",
      "t","h","e","-","a","r","t"," ","m","e","t","h","o","d","o","l","o","g","i","e","s",".">>

Scenarios == {GrammarScenario, SimplifyScenario}

Contents ==
    {Str(Join(ws)) : ws \in UNION {[1..k -> Lexicon] : k \in 0..MaxWords}}
    \cup {Str(text) : text \in Scenarios}
    \cup {NotAString}

Types == Categories \cup {"translate"}

Contexts == {[tone |-> "professional"], [tone |-> "undefined"]}

\* uuidv4().substring(0, 8) and new Date().toISOString()
Uuids == {"1b9d6bcd", "6ec0bd7f"}

Clock == {"2025-01-01T00:00:00.000Z"}

\* what the calls of uuidv4 return during one call of generateSuggestions:
\* those of calculateWordDiff, then the one for the suggestion's id
GenerationDraws ==
    {[changes |-> DistinctDraws, suggestion |-> "6ec0bd7f"],
     [changes |-> RepeatedDraws, suggestion |-> "1b9d6bcd"]}

InitGen ==
    /\ phase = "input"
    /\ contentArg \in Contents
    /\ typeArg \in Types
    /\ contextArg \in Contexts
    /\ suggestion = NoSuggestion
    /\ original = NoText
    /\ suggested = NoText
    /\ parts = <<>>
    /\ rawChanges = <<>>
    /\ changes = <<>>
    /\ accepted = <<>>
    /\ result = NoText
    /\ error = NoError
    /\ Unmounted

\* the caller after the call: the suggestion it was returned, or the
\* error it caught
Settle(call) ==
    IF call.threw
    THEN /\ error' = call.error
         /\ suggestion' = NoSuggestion
         /\ phase' = "failed"
    ELSE /\ error' = NoError
         /\ suggestion' = call.value
         /\ phase' = "generated"

\* generateSuggestions(contentArg, typeArg, contextArg)
GenerateSuggestions ==
    /\ phase = "input"
    /\ \E g \in GenerationDraws, now \in Clock :
          Settle(generateSuggestions(contentArg, typeArg, contextArg,
                                     g.changes, g.suggestion, now))
    /\ UNCHANGED <<contentArg, typeArg, contextArg, original, suggested, parts,
                   rawChanges, changes, accepted, result>>
    /\ UNCHANGED componentState

\* applyChangesToContent(suggestion.original, suggestion.changes): every
\* change accepted
ApplyAllChanges ==
    /\ phase = "generated"
    /\ accepted' = suggestion.changes
    /\ result' = applyChangesToContent(suggestion.original, suggestion.changes)
    /\ phase' = "applied"
    /\ UNCHANGED <<contentArg, typeArg, contextArg, suggestion, original,
                   suggested, parts, rawChanges, changes>>
    /\ error' = NoError
    /\ UNCHANGED componentState

NextGen == GenerateSuggestions \/ ApplyAllChanges

SpecGen == InitGen /\ [][NextGen]_vars

(***************************************************************************)
(* Specification SpecReason: getReasonForChange on every change type (and  *)
(* a type it does not know) and every pair of texts made of up to          *)
(* MaxReasonWords phrases joined by one space.                             *)
(***************************************************************************)
MaxReasonWords == 2

ReasonPhrases ==
    {<<"i","t","s">>, <<"i","t","'","s">>,
     <<"G","o","o","d">>, <<"e","x","c","e","l","l","e","n","t">>,
     <<"v","e","r","y"," ","e","x","c","e","p","t","i","o","n","a","l">>}

\* the phrases of ws with one space between them
Spaced(ws) ==
    Join([i \in DOMAIN ws |-> IF i = 1 THEN ws[i] ELSE <<" ">> \o ws[i]])

ReasonTexts ==
    {Spaced(ws) : ws \in UNION {[1..k -> ReasonPhrases] : k \in 0..MaxReasonWords}}

ChangeTypes == {"addition", "deletion", "modification", "replacement"}

InitReason ==
    /\ phase = "input"
    /\ original \in ReasonTexts
    /\ suggested \in ReasonTexts
    /\ parts = <<>>
    /\ rawChanges = <<>>
    /\ changes = <<>>
    /\ accepted = <<>>
    /\ result = NoText
    /\ error = NoError
    /\ contentArg = Str(<<>>)
    /\ typeArg \in ChangeTypes
    /\ contextArg = [tone |-> "undefined"]
    /\ suggestion = NoSuggestion
    /\ Unmounted

\* getReasonForChange(type, original, suggested): no statement of it or
\* of its helpers throws on strings, so the call returns its label
GetReasonForChange ==
    /\ phase = "input"
    /\ result' = getReasonForChange(typeArg, original, suggested)
    /\ error' = NoError
    /\ phase' = "classified"
    /\ UNCHANGED <<original, suggested, parts, rawChanges, changes, accepted,
                   contentArg, typeArg, contextArg, suggestion>>
    /\ UNCHANGED componentState

NextReason == GetReasonForChange

SpecReason == InitReason /\ [][NextReason]_vars

(***************************************************************************)
(* Specification SpecConfidence: calculateConfidence on change lists of up *)
(* to MaxChanges records whose texts are just under, at and just over the  *)
(* size of a large change, then once more on the list with one record      *)
(* appended or with one text of one record lengthened.                     *)
(***************************************************************************)
MaxChanges == 23

\* a text of n characters
Filled(n) == [i \in 1..n |-> "a"]

\* a record whose original has a characters and whose suggested has b
SizedRecord(a, b) ==
    [type      |-> IF a = 0 THEN "addition" ELSE IF b = 0 THEN "deletion" ELSE "modification",
     position  |-> [start |-> 0, end |-> a],
     original  |-> Filled(a),
     suggested |-> Filled(b)]

SmallRecords ==
    {SizedRecord(LargeChangeSize, 0), SizedRecord(0, LargeChangeSize),
     SizedRecord(LargeChangeSize - 1, LargeChangeSize)}

LargeRecords ==
    {SizedRecord(LargeChangeSize + 1, 0), SizedRecord(0, LargeChangeSize + 1)}

\* the lists of n records, the first k of them large
ChangeLists ==
    {[i \in 1..n[1] |-> IF i <= n[2] THEN r[1] ELSE r[2]] :
        n \in {m \in (0..MaxChanges) \X (0..MaxChanges) : m[2] <= m[1]},
        r \in LargeRecords \X SmallRecords}

InitConfidence ==
    /\ phase = "input"
    /\ changes \in ChangeLists
    /\ accepted = <<>>
    /\ result = 0
    /\ original = NoText
    /\ suggested = NoText
    /\ parts = <<>>
    /\ rawChanges = <<>>
    /\ error = NoError
    /\ contentArg = Str(<<>>)
    /\ typeArg = ""
    /\ contextArg = [tone |-> "undefined"]
    /\ suggestion = NoSuggestion
    /\ Unmounted

\* calculateConfidence(changes)
CalculateConfidence ==
    /\ phase = "input"
    /\ result' = calculateConfidence(changes)
    /\ phase' = "scored"
    /\ UNCHANGED <<original, suggested, parts, rawChanges, changes, accepted,
                   error, contentArg, typeArg, contextArg, suggestion>>
    /\ UNCHANGED componentState

\* calculateConfidence of the list with one more record; `accepted` keeps
\* the list scored before
ScoreAppended ==
    /\ phase = "scored"
    /\ \E r \in SmallRecords \cup LargeRecords :
          /\ changes' = Append(changes, r)
          /\ result' = calculateConfidence(Append(changes, r))
    /\ accepted' = changes
    /\ phase' = "rescored"
    /\ UNCHANGED <<original, suggested, parts, rawChanges, error, contentArg,
                   typeArg, contextArg, suggestion>>
    /\ UNCHANGED componentState

\* the list with the original (or the suggested) text of record i one
\* character longer
Lengthened(changeList, i, field) ==
    [changeList EXCEPT ![i] =
        IF field = "original"
        THEN [@ EXCEPT !.original = Append(@, "a")]
        ELSE [@ EXCEPT !.suggested = Append(@, "a")]]

\* calculateConfidence of the list with one text of one record lengthened
ScoreLengthened ==
    /\ phase = "scored"
    /\ \E i \in DOMAIN changes, field \in {"original", "suggested"} :
          /\ changes' = Lengthened(changes, i, field)
          /\ result' = calculateConfidence(Lengthened(changes, i, field))
    /\ accepted' = changes
    /\ phase' = "rescored"
    /\ UNCHANGED <<original, suggested, parts, rawChanges, error, contentArg,
                   typeArg, contextArg, suggestion>>
    /\ UNCHANGED componentState

NextConfidence == CalculateConfidence \/ ScoreAppended \/ ScoreLengthened

SpecConfidence == InitConfidence /\ [][NextConfidence]_vars

(***************************************************************************)
(* Specification SpecRules: applyRules with the rule list of every         *)
(* category, with and without the professional tone, on every content of   *)
(* up to MaxPhrases phrases: words the rules rewrite, and a padding that   *)
(* brings the text near the length 'Add examples' asks for.                *)
(***************************************************************************)
MaxPhrases == 3

Padding == Filled(ShortContentLimit - 50)

RulePhrases ==
    {<<"f","e","a","t","u","r","e">>, <<"p","o","w","e","r","f","u","l">>,
     <<"s","e","r","v","i","c","e">>, Padding}

RuleContents ==
    {Str(Spaced(ws)) : ws \in UNION {[1..k -> RulePhrases] : k \in 0..MaxPhrases}}

InitRules ==
    /\ phase = "input"
    /\ contentArg \in RuleContents
    /\ typeArg \in Categories
    /\ contextArg \in Contexts
    /\ suggestion = NoSuggestion
    /\ original = NoText
    /\ suggested = NoText
    /\ parts = <<>>
    /\ rawChanges = <<>>
    /\ changes = <<>>
    /\ accepted = <<>>
    /\ result = NoText
    /\ error = NoError
    /\ Unmounted

\* applyRules(content, rules, context) with the rules selectRules gave for
\* the type; on a string no rule throws
ApplyRules ==
    /\ phase = "input"
    /\ result' = applyRules(contentArg, selectRules(typeArg).value, contextArg).value.value
    /\ phase' = "ruled"
    /\ UNCHANGED <<contentArg, typeArg, contextArg, suggestion, original,
                   suggested, parts, rawChanges, changes, accepted, error>>
    /\ UNCHANGED componentState

NextRules == ApplyRules

SpecRules == InitRules /\ [][NextRules]_vars

(***************************************************************************)
(* Specification SpecTokenize: tokenize on every text of up to MaxTokenLen *)
(* characters: letters, a digit, an underscore, whitespace, punctuation    *)
(* and a letter that \w does not know.                                     *)
(***************************************************************************)
MaxTokenLen == 4

TokenChars == {"a", "Z", "1", "_", " ", "\t", ",", "-", "é"}

TokenTexts == UNION {[1..k -> TokenChars] : k \in 0..MaxTokenLen}

InitTokenize ==
    /\ phase = "input"
    /\ original \in TokenTexts
    /\ suggested = NoText
    /\ parts = <<>>
    /\ rawChanges = <<>>
    /\ changes = <<>>
    /\ accepted = <<>>
    /\ result = NoText
    /\ error = NoError
    /\ contentArg = Str(<<>>)
    /\ typeArg = ""
    /\ contextArg = [tone |-> "undefined"]
    /\ suggestion = NoSuggestion
    /\ Unmounted

\* tokenize(original): `parts` holds the tokens it returns
Tokenize ==
    /\ phase = "input"
    /\ parts' = tokenize(original)
    /\ phase' = "tokenized"
    /\ UNCHANGED <<original, suggested, rawChanges, changes, accepted, result,
                   error, contentArg, typeArg, contextArg, suggestion>>
    /\ UNCHANGED componentState

NextTokenize == Tokenize

SpecTokenize == InitTokenize /\ [][NextTokenize]_vars

(***************************************************************************)
(* Specification SpecValidate: validateRequest on request bodies whose     *)
(* content, type and context are values of every JavaScript kind.          *)
(***************************************************************************)
BodyContents ==
    {JsUndefined, JsNull, JsString(<<>>), JsString(<<"a">>),
     JsString(Filled(MAX_CONTENT_LENGTH)), JsString(Filled(MAX_CONTENT_LENGTH + 1)),
     JsNumber("0"), JsNumber("5"), JsBoolean("true"), JsObject("[]")}

BodyTypes ==
    {JsUndefined, JsNull, JsString(<<>>), JsNumber("1"), JsObject("[improve]"),
     JsString(<<"i","m","p","r","o","v">>), JsString(<<"I","m","p","r","o","v","e">>)}
        \cup {JsString(t) : t \in VALID_TYPES}

BodyContexts ==
    {JsUndefined, JsNull, JsObject("{}"), JsObject("{tone:formal}"), JsObject("[]"),
     JsString(<<>>), JsString(<<"f","o","r","m","a","l">>), JsNumber("0"),
     JsNumber("1"), JsBoolean("false"), JsBoolean("true")}

NoOutcome == [nextCalls |-> 0, responses |-> <<>>]

InitValidate ==
    /\ phase = "input"
    /\ contentArg \in BodyContents
    /\ typeArg \in BodyTypes
    /\ contextArg \in BodyContexts
    /\ original = NoText
    /\ suggested = NoText
    /\ parts = <<>>
    /\ rawChanges = <<>>
    /\ changes = <<>>
    /\ accepted = <<>>
    /\ result = NoOutcome
    /\ error = NoError
    /\ suggestion = NoSuggestion
    /\ Unmounted

\* validateRequest on the body {content, type, context}: `result` holds the
\* responses it sent and its calls of next
ValidateRequest ==
    /\ phase = "input"
    /\ result' = validateRequest([content |-> contentArg, type |-> typeArg,
                                  context |-> contextArg])
    /\ phase' = "validated"
    /\ UNCHANGED <<original, suggested, parts, rawChanges, changes, accepted,
                   error, contentArg, typeArg, contextArg, suggestion>>
    /\ UNCHANGED componentState

NextValidate == ValidateRequest

SpecValidate == InitValidate /\ [][NextValidate]_vars

(***************************************************************************)
(* Specification SpecMerge: mergeAdjacentChanges on any list of up to      *)
(* MaxMerged records over the text "aa", in any order of types, the ids    *)
(* of the list all different; then applyChangesToContent, any number of    *)
(* times, on arrays of some of the records returned.                       *)
(***************************************************************************)
MaxMerged == 3

\* the records of the lists, without their ids
MergeShapes ==
    {[type |-> "addition", position |-> [start |-> p, end |-> p],
      original |-> <<>>, suggested |-> <<"b">>, reason |-> "Adds additional context"] :
        p \in 0..1}
    \cup
    {[type |-> "deletion", position |-> [start |-> r[1], end |-> r[2]],
      original |-> Slice(<<"a", "a">>, r[1], r[2]), suggested |-> <<>>,
      reason |-> "Removes unnecessary words"] :
        r \in {<<0, 1>>, <<1, 2>>, <<0, 2>>}}
    \cup
    {[type |-> "modification", position |-> [start |-> 0, end |-> 1],
      original |-> <<"a">>, suggested |-> <<"b">>, reason |-> "Improves clarity"]}

\* the record of a shape with the id the k-th call of uuidv4 gave it
withId(shape, draws, k) ==
    [id |-> "chg_" \o uuidAt(draws, k), type |-> shape.type,
     position |-> shape.position, original |-> shape.original,
     suggested |-> shape.suggested, reason |-> shape.reason]

InitMerge ==
    /\ phase = "input"
    /\ \E shapes \in UNION {[1..k -> MergeShapes] : k \in 0..MaxMerged} :
          rawChanges = [i \in DOMAIN shapes |-> withId(shapes[i], DistinctDraws, i)]
    /\ original = <<"a", "a">>
    /\ suggested = NoText
    /\ parts = <<>>
    /\ changes = <<>>
    /\ accepted = <<>>
    /\ result = NoText
    /\ error = NoError
    /\ contentArg = Str(<<>>)
    /\ typeArg = ""
    /\ contextArg = [tone |-> "undefined"]
    /\ suggestion = NoSuggestion
    /\ Unmounted

\* mergeAdjacentChanges(rawChanges): `changes` holds the list it returns;
\* it assigns to no element and to no field of its argument
MergeAdjacentChanges ==
    /\ phase = "input"
    /\ changes' = mergeAdjacentChanges(rawChanges, DistinctDraws)
    /\ phase' = "merged"
    /\ UNCHANGED <<original, suggested, parts, rawChanges, accepted, result,
                   error, contentArg, typeArg, contextArg, suggestion>>
    /\ UNCHANGED componentState

\* the caller makes an array of some of the records of `changes`, as
\* handleApplyChanges does with filter
SelectChanges ==
    /\ phase \in {"merged", "applied"}
    /\ \E order \in Arrangements(Len(changes)) :
          accepted' = [i \in DOMAIN order |-> changes[order[i]]]
    /\ phase' = "selected"
    /\ UNCHANGED <<original, suggested, parts, rawChanges, changes, result,
                   error, contentArg, typeArg, contextArg, suggestion>>
    /\ UNCHANGED componentState

\* applyChangesToContent(original, accepted): `result` holds what it
\* returns and `accepted` what the array passed to it holds afterwards
ReconcileSelected ==
    /\ phase = "selected"
    /\ result' = applyChangesToContent(original, accepted)
    /\ accepted' = changesAfterApply(accepted)
    /\ phase' = "applied"
    /\ UNCHANGED <<original, suggested, parts, rawChanges, changes, error,
                   contentArg, typeArg, contextArg, suggestion>>
    /\ UNCHANGED componentState

NextMerge == MergeAdjacentChanges \/ SelectChanges \/ ReconcileSelected

SpecMerge == InitMerge /\ [][NextMerge]_vars

(***************************************************************************)
(* frontend: the hook useSuggestions, the handlers of                      *)
(* EditorWithSuggestions and the suggestions router they talk to.  The     *)
(* component is [currentContent, suggestion, selectedChangeIds], the hook  *)
(* [loading, error]; null is NoSuggestion or NoError.                      *)
(***************************************************************************)
\* the characters of the `type` the hook posts
typeChars(typeId) ==
    CASE typeId = "improve" -> <<"i","m","p","r","o","v","e">>
      [] typeId = "grammar" -> <<"g","r","a","m","m","a","r">>
      [] typeId = "simplify" -> <<"s","i","m","p","l","i","f","y">>
      [] typeId = "expand" -> <<"e","x","p","a","n","d">>

\* what the route handler sends once generateSuggestions has settled
servedResponse(call) ==
    IF call.threw
    THEN [rejected |-> FALSE, ok |-> FALSE, message |-> call.error.message,
          data |-> NoSuggestion]
    ELSE [rejected |-> FALSE, ok |-> TRUE, message |-> "", data |-> call.value]

\* POST /api/suggestions with the body {content, type, context: {}}:
\* validateRequest, the rate limit, then generateSuggestions
routerResponse(content, typeId, limited, draws, now) ==
    LET gate == validateRequest([content |-> JsString(content),
                                 type    |-> JsString(typeChars(typeId)),
                                 context |-> JsObject("{}")])
    IN  IF gate.responses # <<>>
        THEN [rejected |-> FALSE, ok |-> FALSE,
              message |-> gate.responses[1].message, data |-> NoSuggestion]
        ELSE IF limited
        THEN [rejected |-> FALSE, ok |-> FALSE,
              message |-> "Too many requests. Please try again later.",
              data |-> NoSuggestion]
        ELSE servedResponse(generateSuggestions(Str(content), typeId,
                                                [tone |-> "undefined"],
                                                draws.changes, draws.suggestion, now))

\* fetch rejects: no response arrives
fetchRejected ==
    [rejected |-> TRUE, ok |-> FALSE, message |-> "Failed to fetch", data |-> NoSuggestion]

\* getSuggestions from the moment fetch settles: the data it returns or
\* the Error it throws
getSuggestionsOutcome(fetched) ==
    IF fetched.rejected THEN Threw(fetched.message)
    ELSE IF ~fetched.ok
    THEN Threw(IF fetched.message # "" THEN fetched.message
               ELSE "Failed to get suggestions")
    ELSE Returned(fetched.data)

\* the hook when getSuggestions starts: setLoading(true), setError(null)
getSuggestionsStart(hook) == [loading |-> TRUE, error |-> NoError]

\* the hook as it would be with setLoading(false) at the end of the try
\* block and no finally
getSuggestionsEndNoFinally(hook, outcome) ==
    IF outcome.threw
    THEN [loading |-> hook.loading,
          error |-> [NoError EXCEPT !.message = outcome.message]]
    ELSE [loading |-> FALSE, error |-> hook.error]

\* the hook when getSuggestions ends: setError in the catch block,
\* setLoading(false) in the finally block
getSuggestionsEnd(hook, outcome) ==
    [loading |-> FALSE,
     error   |-> IF outcome.threw
                 THEN [NoError EXCEPT !.message =
                           IF outcome.message # "" THEN outcome.message
                           ELSE "An unexpected error occurred"]
                 ELSE hook.error]

\* handleGetSuggestions once the await has settled
handleGetSuggestions(c, outcome) ==
    IF outcome.threw THEN c
    ELSE [c EXCEPT !.suggestion = outcome.value, !.selectedChangeIds = {}]

handleAcceptChange(c, changeId) ==
    [c EXCEPT !.selectedChangeIds = @ \cup {changeId}]

handleRejectChange(c, changeId) ==
    [c EXCEPT !.selectedChangeIds = @ \ {changeId}]

handleAcceptAll(c) ==
    IF c.suggestion = NoSuggestion THEN c
    ELSE [c EXCEPT !.selectedChangeIds =
              {c.suggestion.changes[i].id : i \in DOMAIN c.suggestion.changes}]

handleRejectAll(c) == [c EXCEPT !.selectedChangeIds = {}]

\* suggestion.changes.filter(c => selectedChangeIds.has(c.id))
acceptedChanges(c) ==
    LET has(change) == change.id \in c.selectedChangeIds
    IN  SelectSeq(c.suggestion.changes, has)

\* handleApplyChanges with the editor ready: setMarkdown(newContent), which
\* the markdownUpdated listener copies into currentContent
handleApplyChanges(c) ==
    IF c.suggestion = NoSuggestion THEN c
    ELSE [currentContent    |-> applyChangesToContent(c.suggestion.original,
                                                      acceptedChanges(c)),
          suggestion        |-> NoSuggestion,
          selectedChangeIds |-> {}]

\* handleClearSuggestions as it would be without
\* setSelectedChangeIds(new Set())
handleClearSuggestionsKeepSelection(c) == [c EXCEPT !.suggestion = NoSuggestion]

handleClearSuggestions(c) ==
    [c EXCEPT !.suggestion = NoSuggestion, !.selectedChangeIds = {}]

(***************************************************************************)
(* Specification SpecUI: the mounted component under every sequence of     *)
(* user events and responses; the editor holds any text of up to           *)
(* MaxUiWords pieces.  SpecUILive adds that a fetch settles.               *)
(***************************************************************************)
MaxUiWords == 2

UiLexicon == {<<",", "a", "n", "d", " ", " ">>, <<"g", "o", "o", "d">>}

UiContents == {Join(ws) : ws \in UNION {[1..k -> UiLexicon] : k \in 0..MaxUiWords}}

\* the ids of SUGGESTION_TYPES
SuggestionTypeIds == {"improve", "grammar", "simplify", "expand"}

\* what the calls of uuidv4 return during one request
UiDraws == [changes |-> DistinctDraws, suggestion |-> "6ec0bd7f"]

Component ==
    [currentContent |-> currentContent, suggestion |-> suggestion,
     selectedChangeIds |-> selectedChangeIds]

Hook == [loading |-> loading, error |-> error]

SetComponent(c) ==
    /\ currentContent' = c.currentContent
    /\ suggestion' = c.suggestion
    /\ selectedChangeIds' = c.selectedChangeIds

SetHook(hook) ==
    /\ loading' = hook.loading
    /\ error' = hook.error

\* what no handler of the component touches
rest == <<original, suggested, parts, rawChanges, changes, accepted, result,
          contentArg, typeArg, contextArg>>

InitUI ==
    /\ phase = "mounted"
    /\ currentContent = <<"g", "o", "o", "d">>
    /\ suggestion = NoSuggestion
    /\ selectedChangeIds = {}
    /\ loading = FALSE
    /\ error = NoError
    /\ request = NoRequest
    /\ original = NoText
    /\ suggested = NoText
    /\ parts = <<>>
    /\ rawChanges = <<>>
    /\ changes = <<>>
    /\ accepted = <<>>
    /\ result = NoText
    /\ contentArg = Str(<<>>)
    /\ typeArg = ""
    /\ contextArg = [tone |-> "undefined"]

\* the user edits the text: the markdownUpdated listener sets
\* currentContent; the editor is never read-only
MarkdownUpdated ==
    /\ \E text \in UiContents \ {currentContent} : currentContent' = text
    /\ phase' = "edited"
    /\ UNCHANGED <<suggestion, selectedChangeIds, loading, error, request>>
    /\ UNCHANGED rest

\* a type button of the panel, shown while there is no suggestion and
\* enabled while nothing loads: handleGetSuggestions up to its await (the
\* model asks for suggestions on the texts of UiContents only)
GetSuggestionsStarts ==
    /\ suggestion = NoSuggestion
    /\ ~loading
    /\ currentContent \in UiContents
    /\ \E typeId \in SuggestionTypeIds :
          request' = [state |-> "pending", content |-> currentContent, type |-> typeId]
    /\ SetHook(getSuggestionsStart(Hook))
    /\ phase' = "requested"
    /\ UNCHANGED <<currentContent, suggestion, selectedChangeIds>>
    /\ UNCHANGED rest

\* the hook and the component once getSuggestions has ended with `outcome`
Settled(outcome) ==
    /\ SetHook(getSuggestionsEnd(Hook, outcome))
    /\ SetComponent(handleGetSuggestions(Component, outcome))
    /\ request' = [request EXCEPT !.state = IF outcome.threw THEN "failed" ELSE "succeeded"]
    /\ phase' = IF outcome.threw THEN "failed" ELSE "received"

\* the fetch settles, with a rejection or with the response of the server,
\* rate limited or not: the rest of getSuggestions, then the rest of
\* handleGetSuggestions
GetSuggestionsSettles ==
    /\ request.state = "pending"
    /\ \/ Settled(getSuggestionsOutcome(fetchRejected))
       \/ \E limited \in BOOLEAN, now \in Clock :
             Settled(getSuggestionsOutcome(
                 routerResponse(request.content, request.type, limited, UiDraws, now)))
    /\ UNCHANGED rest

\* an Accept button: one for each record of the suggestion not selected
AcceptChange ==
    /\ suggestion # NoSuggestion
    /\ \E i \in DOMAIN suggestion.changes :
          /\ suggestion.changes[i].id \notin selectedChangeIds
          /\ SetComponent(handleAcceptChange(Component, suggestion.changes[i].id))
    /\ phase' = "accepted"
    /\ UNCHANGED <<loading, error, request>>
    /\ UNCHANGED rest

\* a Reject button: one for each record of the suggestion selected
RejectChange ==
    /\ suggestion # NoSuggestion
    /\ \E i \in DOMAIN suggestion.changes :
          /\ suggestion.changes[i].id \in selectedChangeIds
          /\ SetComponent(handleRejectChange(Component, suggestion.changes[i].id))
    /\ phase' = "rejected"
    /\ UNCHANGED <<loading, error, request>>
    /\ UNCHANGED rest

\* Accept All, enabled when the suggestion has changes
AcceptAll ==
    /\ suggestion # NoSuggestion
    /\ suggestion.changes # <<>>
    /\ SetComponent(handleAcceptAll(Component))
    /\ phase' = "acceptedAll"
    /\ UNCHANGED <<loading, error, request>>
    /\ UNCHANGED rest

\* Reject All, enabled when something is selected
RejectAll ==
    /\ suggestion # NoSuggestion
    /\ selectedChangeIds # {}
    /\ SetComponent(handleRejectAll(Component))
    /\ phase' = "rejectedAll"
    /\ UNCHANGED <<loading, error, request>>
    /\ UNCHANGED rest

\* Apply Changes, enabled when something is selected
ApplyChanges ==
    /\ suggestion # NoSuggestion
    /\ selectedChangeIds # {}
    /\ SetComponent(handleApplyChanges(Component))
    /\ phase' = "applied"
    /\ UNCHANGED <<loading, error, request>>
    /\ UNCHANGED rest

\* Clear
ClearSuggestions ==
    /\ suggestion # NoSuggestion
    /\ SetComponent(handleClearSuggestions(Component))
    /\ phase' = "cleared"
    /\ UNCHANGED <<loading, error, request>>
    /\ UNCHANGED rest

NextUI ==
    \/ MarkdownUpdated
    \/ GetSuggestionsStarts
    \/ GetSuggestionsSettles
    \/ AcceptChange
    \/ RejectChange
    \/ AcceptAll
    \/ RejectAll
    \/ ApplyChanges
    \/ ClearSuggestions

SpecUI == InitUI /\ [][NextUI]_vars

\* a fetch settles: with a response or with a rejection
SpecUILive == SpecUI /\ WF_vars(GetSuggestionsSettles)

(***************************************************************************)
(* Properties of the diff and of the reconciliation.                       *)
(***************************************************************************)
RECURSIVE CursorBefore(_, _)
\* the total length of the common and removed parts before part i
CursorBefore(diff, i) ==
    IF i <= 1 THEN 0
    ELSE CursorBefore(diff, i - 1)
         + (IF diff[i - 1].added THEN 0 ELSE Len(diff[i - 1].value))

\* half-open ranges [start, end) that share an offset
Intersect(r1, r2) ==
    Max(r1.position.start, r2.position.start) < Min(r1.position.end, r2.position.end)

SortedByStart(changeList) ==
    \A i \in 1..(Len(changeList) - 1) :
        changeList[i].position.start <= changeList[i + 1].position.start

NonOverlapping(changeList) ==
    \A i, j \in DOMAIN changeList : i # j => ~Intersect(changeList[i], changeList[j])

\* the index of the part a record was made from: records are made in
\* part order, one per added or removed part
RECURSIVE ChangedParts(_, _)
ChangedParts(diff, i) ==
    IF i > Len(diff) THEN <<>>
    ELSE (IF diff[i].added \/ diff[i].removed THEN <<i>> ELSE <<>>)
         \o ChangedParts(diff, i + 1)

\* C2: a removed (non-empty) part immediately followed by an added part
\* comes back as exactly one 'modification' record at the deletion's
\* position, with the removed text as original and the added text as
\* suggested, and never as a deletion record followed by an addition record.
C2_MergedIntoOneModification ==
    phase # "input" =>
        \A i \in 1..(Len(parts) - 1) :
            (parts[i].removed /\ parts[i].value # <<>> /\ parts[i + 1].added) =>
                /\ Cardinality({j \in DOMAIN changes :
                       /\ changes[j].type = "modification"
                       /\ changes[j].position.start = CursorBefore(parts, i)
                       /\ changes[j].original = parts[i].value
                       /\ changes[j].suggested = parts[i + 1].value}) = 1
                /\ ~\E j \in 1..(Len(changes) - 1) :
                       /\ changes[j].type = "deletion"
                       /\ changes[j + 1].type = "addition"
                       /\ changes[j].original = parts[i].value
                       /\ changes[j + 1].suggested = parts[i + 1].value

\* C3: the records are sorted by ascending position.start and no two of
\* their ranges [start, end) intersect, before and after mergeAdjacentChanges.
C3_SortedNonOverlapping ==
    phase # "input" =>
        /\ SortedByStart(rawChanges) /\ NonOverlapping(rawChanges)
        /\ SortedByStart(changes) /\ NonOverlapping(changes)

C3_Witness ==
    /\ phase = "diffed"
    /\ Len(changes) >= 3
    /\ \E i \in DOMAIN changes : changes[i].type = "deletion"
    /\ \E i \in DOMAIN changes : changes[i].type = "addition"

WellShaped(r) ==
    /\ r.type \in {"addition", "deletion", "modification"}
    /\ r.type = "addition" =>
          r.original = <<>> /\ r.position.start = r.position.end
    /\ r.type = "deletion" =>
          r.suggested = <<>> /\ r.position.end - r.position.start = Len(r.original)
    /\ r.type = "modification" =>
          /\ r.original # <<>> /\ r.suggested # <<>>
          /\ r.position.end - r.position.start = Len(r.original)

\* C4: every record calculateWordDiff returns has the shape of its type:
\* an addition has no original text and start = end, a deletion has no
\* suggested text and spans its original text, a modification has both
\* texts and spans its original text.
C4_RecordShape ==
    phase # "input" => \A i \in DOMAIN changes : WellShaped(changes[i])

C4_Witness ==
    /\ phase = "diffed"
    /\ \E i \in DOMAIN changes :
          changes[i].type = "deletion" /\ Len(changes[i].original) >= 2
    /\ \E i \in DOMAIN changes :
          changes[i].type = "addition" /\ changes[i].position.start > 0

\* C5: positions are offsets into the original string: 0 <= start <= end
\* <= len(original), start is the total length of the common and removed
\* parts before the record's part, and a deletion's or modification's
\* range of the original string is the record's original text.
C5_OriginalOffsets ==
    phase # "input" =>
        /\ Len(rawChanges) = Len(ChangedParts(parts, 1))
        /\ \A i \in DOMAIN rawChanges :
              rawChanges[i].position.start
                  = CursorBefore(parts, ChangedParts(parts, 1)[i])
        /\ \A i \in DOMAIN changes :
              LET r == changes[i] IN
              /\ 0 <= r.position.start
              /\ r.position.start <= r.position.end
              /\ r.position.end <= Len(original)
              /\ r.type \in {"deletion", "modification"} =>
                    Slice(original, r.position.start, r.position.end) = r.original

\* the records of changeList in ascending order of start, spliced left to
\* right into text: what "text with exactly these records applied" means
RECURSIVE Rebuilt(_, _, _)
Rebuilt(text, ascending, from) ==
    IF ascending = <<>> THEN SliceFrom(text, from)
    ELSE LET r == Head(ascending)
         IN  Slice(text, from, r.position.start) \o r.suggested
             \o Rebuilt(text, Tail(ascending), Max(from, r.position.end))

\* the records of `changes` that are in the accepted list, in changes order
RECURSIVE InChangesOrder(_, _)
InChangesOrder(changeList, chosen) ==
    IF changeList = <<>> THEN <<>>
    ELSE (IF Head(changeList) \in Range(chosen) THEN <<Head(changeList)>> ELSE <<>>)
         \o InChangesOrder(Tail(changeList), chosen)

\* C6: while applyChangesToContent folds over a subset of the changes in
\* descending start order, the working string equals the original on
\* [0, r.end) when record r is spliced, so that working[r.start, r.end) is
\* r's original text, and the final string is the original with exactly
\* the accepted records applied.
C6_OffsetsStayValid ==
    phase = "applied" =>
        LET sortedChanges == sortDescending(accepted) IN
        /\ \A k \in DOMAIN sortedChanges :
              LET r       == sortedChanges[k]
                  working == foldChanges(original, sortedChanges, k - 1)
              IN  /\ Slice(working, 0, r.position.end)
                        = Slice(original, 0, r.position.end)
                  /\ r.type # "addition" =>
                        Slice(working, r.position.start, r.position.end) = r.original
        /\ result = Rebuilt(original, InChangesOrder(changes, accepted), 0)

\* C7: applyChangesToContent returns the same string for every ordering of
\* the same subset of the changes.
C7_OrderIndependent ==
    phase = "applied" =>
        result = applyChangesToContent(original, InChangesOrder(changes, accepted))

C7_Witness ==
    /\ phase = "applied"
    /\ Len(accepted) >= 3
    /\ accepted[1].position.start < accepted[2].position.start
    /\ accepted[3].position.start < accepted[2].position.start
    /\ result # original

\* C8: when two of the accepted records have overlapping ranges, the
\* reconciliation fails with an OVERLAPPING_CHANGES error and returns no
\* string.
C8_OverlapRejected ==
    (phase = "applied" /\ ~NonOverlapping(accepted)) =>
        /\ error.code = "OVERLAPPING_CHANGES"
        /\ result = NoText

(***************************************************************************)
(* Properties of generateSuggestions.                                      *)
(***************************************************************************)
\* C1: for every content string and every category, applying the complete
\* changes list of the suggestion generateSuggestions returned to
\* suggestion.original with applyChangesToContent yields exactly
\* suggestion.suggested.
C1_RoundTrip ==
    (phase = "applied" /\ typeArg \in Categories) =>
        /\ accepted = suggestion.changes
        /\ result = suggestion.suggested

Populated(sug) ==
    /\ \E uuid \in Uuids : sug.id = "sug_" \o uuid
    /\ sug.original = contentArg.value
    /\ sug.suggested \in Seq(WordChars \cup SpaceChars \cup {",", "-", "."})
    /\ \A i \in DOMAIN sug.changes : WellShaped(sug.changes[i])
    /\ sug.metadata.timestamp \in Clock
    /\ sug.metadata.model
           \in {"improvement-v1", "grammar-check-v1", "simplification-v1", "expansion-v1"}
    /\ sug.metadata.confidence \in 50..100

\* the messages of the failures the body of generateSuggestions can raise
UnderlyingReasons ==
    IF typeArg \notin Categories THEN {"Unknown suggestion type: " \o typeArg}
    ELSE {"text.replace is not a function", "result.replace is not a function"}

\* C10: a call of generateSuggestions ends either with a Suggestion whose
\* id, original, suggested, changes and metadata {timestamp, model,
\* confidence} are all populated and no error, or with one structured error
\* of code GENERATION_FAILED whose details.reason is the message of the
\* underlying failure and no Suggestion at all.
C10_AllOrNothing ==
    phase # "input" =>
        \/ /\ phase \in {"generated", "applied"}
           /\ error = NoError
           /\ typeArg \in Categories /\ contentArg.typeof = "string"
           /\ Populated(suggestion)
        \/ /\ phase = "failed"
           /\ suggestion = NoSuggestion
           /\ typeArg \notin Categories \/ contentArg.typeof # "string"
           /\ error.status = 500
           /\ error.code = "GENERATION_FAILED"
           /\ error.message = "Failed to generate suggestions"
           /\ error.details.reason \in UnderlyingReasons

C10_Witness ==
    /\ phase = "failed"
    /\ typeArg = "grammar"
    /\ contentArg = NotAString
    /\ error.details.reason = "text.replace is not a function"

\* C11: when the rules of the selected category leave the content as it is
\* (applyRules returns its input, which generateSuggestions stores as
\* `suggested`), the Suggestion has suggested equal to original, an empty
\* changes list and a confidence of exactly 1.0.
C11_Identity ==
    (/\ phase \in {"generated", "applied"}
     /\ suggestion.suggested = contentArg.value)
        => /\ suggestion.original = suggestion.suggested
           /\ suggestion.changes = <<>>
           /\ suggestion.metadata.confidence = 100

\* a suggestion for a non-empty content that no rule of the category
\* changes
C11_Witness ==
    /\ phase = "generated"
    /\ typeArg = "grammar"
    /\ contentArg = Str(<<"t","e","a","m"," ","a","n","d">>)
    /\ suggestion.suggested = <<"t","e","a","m"," ","a","n","d">>
    /\ suggestion.changes = <<>>
    /\ suggestion.metadata.confidence = 100

(***************************************************************************)
(* Properties of calculateConfidence (confidences in hundredths).          *)
(***************************************************************************)
RECURSIVE LargeCount(_)
\* k: how many records have a text of more than 20 characters
LargeCount(changeList) ==
    IF changeList = <<>> THEN 0
    ELSE LargeCount(Tail(changeList))
         + (IF \/ Len(Head(changeList).original) > 20
               \/ Len(Head(changeList).suggested) > 20 THEN 1 ELSE 0)

\* max(0.5, 0.95 - 0.02 n - 0.01 k)
PenalisedConfidence(n, k) == IF 95 - 2 * n - k < 50 THEN 50 ELSE 95 - 2 * n - k

\* C12: calculateConfidence is 1.0 for an empty list and otherwise
\* max(0.5, 0.95 - 0.02 n - 0.01 k) rounded to two decimals, n the number
\* of changes and k the number of those whose longer text has strictly
\* more than 20 characters; so it lies in [0.5, 1.0], and in [0.5, 0.93]
\* for a non-empty list.
C12_ConfidenceValue ==
    phase \in {"scored", "rescored"} =>
        /\ changes = <<>> => result = 100
        /\ changes # <<>> =>
               /\ result = PenalisedConfidence(Len(changes), LargeCount(changes))
               /\ result <= 93
        /\ result \in 50..100

\* a list with large records and records of exactly 20 characters whose
\* penalties go below the floor has been scored 0.5
C12_Witness ==
    /\ phase = "scored"
    /\ 95 - 2 * Len(changes) - LargeCount(changes) < 50
    /\ LargeCount(changes) \in 1..(Len(changes) - 1)
    /\ result = 50

\* C13: the confidence of a list obtained from a scored list by appending
\* one record, or by lengthening the original or the suggested text of one
\* record, is never above the confidence of the scored list.
C13_Monotone == [][phase = "scored" => result' <= result]_vars

\* lengthening a text of 20 characters by one has lowered the confidence
\* of a one-record list from 0.93 to 0.92
C13_Witness ==
    /\ phase = "rescored"
    /\ accepted = <<SizedRecord(LargeChangeSize, 0)>>
    /\ Len(changes) = 1
    /\ changes[1].original = Filled(LargeChangeSize + 1)
    /\ result = 92

(***************************************************************************)
(* Properties of applyRules and of the documented scenarios.               *)
(***************************************************************************)
\* the text a rule leaves: what it makes of the cumulative text when it
\* has no condition or its condition holds on that text, else that text
AfterRule(rule, cumulative, context) ==
    IF rule = "Add professional modifiers" /\ context.tone # "professional"
    THEN cumulative
    ELSE IF rule = "Add examples" /\ Len(cumulative) >= 200
    THEN cumulative
    ELSE ruleApply(rule, cumulative)

RECURSIVE TextAfter(_, _, _, _)
\* the cumulative text once the first k rules of the list were visited
TextAfter(k, rules, content, context) ==
    IF k = 0 THEN content
    ELSE AfterRule(rules[k], TextAfter(k - 1, rules, content, context), context)

DeclaredRules(type) ==
    CASE type = "improve" -> improvementRules
      [] type = "grammar" -> grammarRules
      [] type = "simplify" -> simplificationRules
      [] type = "expand" -> expansionRules

\* C14: applyRules visits the rules of the category in declaration order,
\* evaluates each condition on the cumulative text of the rules before it
\* (and the context), applies a rule only when it has no condition or the
\* condition holds, leaves the cumulative text unchanged when it skips
\* one, and returns the text after the last rule.
C14_PipelineOrder ==
    phase = "ruled" =>
        result = TextAfter(Len(DeclaredRules(typeArg)), DeclaredRules(typeArg),
                           contentArg.value, contextArg)

\* a content shorter than 200 characters that 'Add descriptive details'
\* made longer than that, so that 'Add examples' was skipped on it
C14_Witness ==
    /\ phase = "ruled"
    /\ typeArg = "expand"
    /\ Len(contentArg.value) < 200
    /\ test(CI(<<"f","e","a","t","u","r","e">>), contentArg.value)
    /\ Len(ruleApply("Add descriptive details", contentArg.value)) >= 200
    /\ result = ruleApply("Add descriptive details", contentArg.value)
    /\ result # addExamples(result)

\* C15: generateSuggestions("The team are working on it.", "grammar")
\* returns suggested "The team is working on it." and a changes list of
\* exactly one record, a modification of "are" into "is" whose reason
\* names subject-verb agreement.
C15_GrammarScenario ==
    (/\ phase \in {"generated", "applied"}
     /\ typeArg = "grammar"
     /\ contentArg = Str(GrammarScenario))
        => /\ suggestion.suggested =
                  <<"T","h","e"," ","t","e","a","m"," ","i","s"," ","w","o","r","k","i","n","g",
                    " ","o","n"," ","i","t",".">>
           /\ Len(suggestion.changes) = 1
           /\ suggestion.changes[1].type = "modification"
           /\ suggestion.changes[1].original = <<"a","r","e">>
           /\ suggestion.changes[1].suggested = <<"i","s">>
           /\ suggestion.changes[1].reason
                  = "Subject-verb agreement: collective noun is singular"

\* C16: generateSuggestions("We utilize state-of-the-art methodologies.",
\* "simplify") returns suggested "We use modern methods.", with a record
\* replacing "utilize" by "use" and a record replacing "state-of-the-art
\* methodologies" by "modern methods".
C16_SimplifyScenario ==
    (/\ phase \in {"generated", "applied"}
     /\ typeArg = "simplify"
     /\ contentArg = Str(SimplifyScenario))
        => /\ suggestion.suggested =
                  <<"W","e"," ","u","s","e"," ","m","o","d","e","r","n"," ",
                    "m","e","t","h","o","d","s",".">>
           /\ \E i \in DOMAIN suggestion.changes :
                  /\ suggestion.changes[i].original = <<"u","t","i","l","i","z","e">>
                  /\ suggestion.changes[i].suggested = <<"u","s","e">>
           /\ \E i \in DOMAIN suggestion.changes :
                  /\ suggestion.changes[i].original = Slice(SimplifyScenario, 11, 41)
                  /\ suggestion.changes[i].suggested =
                         <<"m","o","d","e","r","n"," ","m","e","t","h","o","d","s">>

\* C17: when the suggested text shares no token with a non-empty original
\* (whole-string replacement) or is empty (whole-string deletion),
\* calculateWordDiff returns exactly one record, whose position is
\* {start: 0, end: len(original)}.
C17_WholeStringEdit ==
    (/\ phase \in {"diffed", "applied"}
     /\ original # <<>>
     /\ \/ suggested = <<>>
        \/ Range(wordTokenize(original)) \cap Range(wordTokenize(suggested)) = {})
        => /\ Len(changes) = 1
           /\ changes[1].position = [start |-> 0, end |-> Len(original)]

\* the tokens of a text that are not whitespace, in order
WordsAndMarks(text) == SelectSeq(wordTokenize(text), HasNonSpace)

\* C18: when original and suggested differ only in whitespace (one space
\* versus two between the same words, say), calculateWordDiff returns a
\* non-empty changes list, and applying the whole list to original yields
\* suggested exactly.
C18_WhitespaceSensitive ==
    (/\ phase \in {"diffed", "applied"}
     /\ original # suggested
     /\ WordsAndMarks(original) = WordsAndMarks(suggested))
        => /\ changes # <<>>
           /\ applyChangesToContent(original, changes) = suggested

(***************************************************************************)
(* Properties of getReasonForChange.                                       *)
(***************************************************************************)
\* C19: getReasonForChange returns a non-empty string, and never throws,
\* for the types addition, deletion and modification and every pair of
\* strings, the empty string and text matching no grammar or word-choice
\* entry included.
C19_ReasonAlwaysProduced ==
    (phase = "classified" /\ typeArg \in {"addition", "deletion", "modification"})
        => /\ error = NoError
           /\ result \in STRING
           /\ result # ""

\* a modification whose texts match no grammar pair and no word-choice
\* entry, the suggested one being the empty string, has been classified
C19_Witness ==
    /\ phase = "classified"
    /\ typeArg = "modification"
    /\ original = <<"e","x","c","e","l","l","e","n","t">>
    /\ suggested = <<>>
    /\ result = "Simplifies expression"

GrammarReasons ==
    {"Subject-verb agreement: collective noun is singular",
     "Possessive pronoun required", "Correct past participle",
     "Grammar correction"}

\* some (from, to) pair of the grammar patterns matches (o, s)
GrammarPairMatches(o, s) ==
    \E i \in DOMAIN grammarPatterns :
        test(grammarPatterns[i].from, o) /\ test(grammarPatterns[i].to, s)

\* some word of o and the word of s of the same index are an entry of the
\* substitution table
AlignedPairInTable(o, s) ==
    \E i \in DOMAIN splitSpaces(o) :
        /\ i \in DOMAIN splitSpaces(s)
        /\ <<splitSpaces(o)[i], splitSpaces(s)[i]>> \in Range(improvements)

\* the label of the length-ratio default
LengthRatioReason(o, s) ==
    IF 2 * Len(o) > 3 * Len(s) THEN "Simplifies expression"
    ELSE IF 2 * Len(s) > 3 * Len(o) THEN "Adds more detail"
    ELSE "Enhances clarity"

\* C20: for a modification, a grammar rationale is returned whenever a
\* grammar pattern pair matches the two (lowercased) texts, whatever else
\* applies; otherwise the word-choice label whenever an aligned word pair
\* is in the substitution table, even if a length-ratio rule applies; and
\* only otherwise the length-ratio default.
C20_ReasonPriority ==
    (phase = "classified" /\ typeArg = "modification")
        => IF GrammarPairMatches(toLowerCase(original), toLowerCase(suggested))
           THEN result \in GrammarReasons
           ELSE IF AlignedPairInTable(toLowerCase(original), toLowerCase(suggested))
           THEN result = "Improves word choice"
           ELSE result = LengthRatioReason(original, suggested)

\* a modification to which a grammar pair, a word-choice entry and a
\* length-ratio rule all apply has been given the grammar rationale
C20_Witness ==
    /\ phase = "classified"
    /\ typeArg = "modification"
    /\ GrammarPairMatches(toLowerCase(original), toLowerCase(suggested))
    /\ AlignedPairInTable(toLowerCase(original), toLowerCase(suggested))
    /\ LengthRatioReason(original, suggested) # "Enhances clarity"
    /\ result = "Grammar correction"

\* the text holds the word as a whole word: an occurrence with no word
\* character right before it or right after it
HasWholeWord(text, word) ==
    \E i \in 0..(Len(text) - Len(word)) :
        /\ Slice(text, i, i + Len(word)) = word
        /\ i = 0 \/ ~IsWordChar(text[i])
        /\ i + Len(word) = Len(text) \/ ~IsWordChar(text[i + Len(word) + 1])

EmphasisWords ==
    {<<"i","n","n","o","v","a","t","i","v","e">>,
     <<"e","x","c","e","p","t","i","o","n","a","l">>,
     <<"c","o","m","p","r","e","h","e","n","s","i","v","e">>}

\* C21 as stated: every addition, whatever its inserted text, is given the
\* single adds-context label.
C21_OneAdditionLabel ==
    (phase = "classified" /\ typeArg = "addition")
        => result = "Adds additional context"

\* C21: an addition is given 'Adds descriptive emphasis' when its inserted
\* text, lowercased, holds innovative, exceptional or comprehensive as a
\* whole word, and 'Adds additional context' otherwise; it receives no
\* other rationale.
C21_AdditionReason ==
    (phase = "classified" /\ typeArg = "addition")
        => IF \E w \in EmphasisWords : HasWholeWord(toLowerCase(suggested), w)
           THEN result = "Adds descriptive emphasis"
           ELSE result = "Adds additional context"

\* an addition whose inserted text holds "exceptional" has been given the
\* emphasis label
C21_Witness ==
    /\ phase = "classified"
    /\ typeArg = "addition"
    /\ HasWholeWord(suggested, <<"e","x","c","e","p","t","i","o","n","a","l">>)
    /\ result = "Adds descriptive emphasis"

(***************************************************************************)
(* Properties of the change ids.                                           *)
(***************************************************************************)
\* C22: within a Suggestion returned by generateSuggestions, the ids of
\* the records of changes are pairwise distinct.
C22_UniqueChangeIds ==
    phase \in {"generated", "applied"} =>
        \A i, j \in DOMAIN suggestion.changes :
            i # j => suggestion.changes[i].id # suggestion.changes[j].id

(***************************************************************************)
(* Properties of tokenize.                                                 *)
(***************************************************************************)
\* the character class of one character
ClassOf(c) ==
    IF c \in WordChars THEN "word"
    ELSE IF c \in SpaceChars THEN "whitespace" ELSE "punctuation"

\* C23: the tokens of tokenize(text) partition the text in order: the
\* first starts at 0, each starts where the one before it ends, the last
\* ends at len(text); end - start is the length of the value and the value
\* is text[start, end); every token is of one character class, which is
\* its type, and no two consecutive tokens are of the same class.
C23_TokenizerPartition ==
    phase = "tokenized" =>
        /\ original = <<>> <=> parts = <<>>
        /\ parts # <<>> =>
               /\ parts[1].position.start = 0
               /\ parts[Len(parts)].position.end = Len(original)
        /\ \A i \in DOMAIN parts :
               /\ parts[i].position.end - parts[i].position.start = Len(parts[i].value)
               /\ parts[i].value # <<>>
               /\ parts[i].value
                      = SubSeq(original, parts[i].position.start + 1, parts[i].position.end)
               /\ \A j \in DOMAIN parts[i].value :
                      ClassOf(parts[i].value[j]) = parts[i].type
               /\ i > 1 => /\ parts[i].position.start = parts[i - 1].position.end
                           /\ parts[i].type # parts[i - 1].type

\* a text whose tokens are of all three classes, one of them longer than a
\* character
C23_Witness ==
    /\ phase = "tokenized"
    /\ {parts[i].type : i \in DOMAIN parts} = {"word", "punctuation", "whitespace"}
    /\ \E i \in DOMAIN parts : Len(parts[i].value) > 1

(***************************************************************************)
(* Properties of validateRequest.                                          *)
(***************************************************************************)
\* a field of the body is absent when the body has no such key or has null
Absent(v) == v \in {JsUndefined, JsNull}

ContentAccepted ==
    /\ contentArg.typeof = "string"
    /\ contentArg.value # <<>>
    /\ Len(contentArg.value) <= MAX_CONTENT_LENGTH

TypeAccepted == typeArg.typeof = "string" /\ typeArg.value \in VALID_TYPES

\* the code the claim names for a body that is not let through: content is
\* looked at first, then type, then context; a type that is empty counts as
\* not present
ExpectedCode ==
    IF ~ContentAccepted
    THEN IF contentArg.typeof = "string" /\ Len(contentArg.value) > MAX_CONTENT_LENGTH
         THEN "CONTENT_TOO_LONG" ELSE "INVALID_REQUEST"
    ELSE IF ~TypeAccepted
    THEN IF ToBoolean(typeArg) THEN "INVALID_TYPE" ELSE "INVALID_REQUEST"
    ELSE "INVALID_REQUEST"

\* C24: validateRequest either calls next() once and sends nothing, exactly
\* when content is a non-empty string of at most 10000 characters, type is
\* one of the four and context is absent or an object; or it sends exactly
\* one 400 response and never calls next(), with CONTENT_TOO_LONG for a
\* string content that is too long, INVALID_TYPE for a type that is present
\* but not one of the four and INVALID_REQUEST otherwise.
C24_ValidationGate ==
    phase = "validated" =>
        IF ContentAccepted /\ TypeAccepted
               /\ (Absent(contextArg) \/ contextArg.typeof = "object")
        THEN result = nextCalled
        ELSE /\ result.nextCalls = 0
             /\ Len(result.responses) = 1
             /\ result.responses[1].status = 400
             /\ result.responses[1].code = ExpectedCode

\* C24, what holds of the code: the same gate, with every falsy context
\* (undefined, null, "", 0, false) let through
C24_GateWithFalsyContext ==
    phase = "validated" =>
        IF ContentAccepted /\ TypeAccepted
               /\ (~ToBoolean(contextArg) \/ contextArg.typeof = "object")
        THEN result = nextCalled
        ELSE /\ result.nextCalls = 0
             /\ Len(result.responses) = 1
             /\ result.responses[1].status = 400
             /\ result.responses[1].code = ExpectedCode

\* a body with a context that is present, falsy and no object is let through
C24_FalsyContextPasses ==
    /\ phase = "validated"
    /\ ContentAccepted /\ TypeAccepted
    /\ contextArg = JsString(<<>>)
    /\ result = nextCalled

(***************************************************************************)
(* Properties of mergeAdjacentChanges on lists of any order.               *)
(***************************************************************************)
\* rawChanges[i] is an addition and rawChanges[i + 1] a deletion that
\* starts at the same offset
AdditionThenDeletion(i) ==
    /\ i + 1 <= Len(rawChanges)
    /\ rawChanges[i].type = "addition"
    /\ rawChanges[i + 1].type = "deletion"
    /\ rawChanges[i + 1].position.start = rawChanges[i].position.start

\* rawChanges[i] is a deletion and rawChanges[i + 1] an addition that
\* starts at the same offset
DeletionThenAddition(i) ==
    /\ i >= 1 /\ i + 1 <= Len(rawChanges)
    /\ rawChanges[i].type = "deletion"
    /\ rawChanges[i + 1].type = "addition"
    /\ rawChanges[i + 1].position.start = rawChanges[i].position.start

InOutput(record) == \E j \in DOMAIN changes : changes[j] = record

AdjacentInOutput(first, second) ==
    \E j \in 1..(Len(changes) - 1) : changes[j] = first /\ changes[j + 1] = second

\* every record of the output that is not a record of the input is a
\* modification made of a deletion and of the addition right behind it
CreatedFromDeletionThenAddition ==
    \A j \in DOMAIN changes :
        (\A i \in DOMAIN rawChanges : rawChanges[i] # changes[j]) =>
            /\ changes[j].type = "modification"
            /\ \E i \in DOMAIN rawChanges :
                  /\ DeletionThenAddition(i)
                  /\ changes[j].position = rawChanges[i].position
                  /\ changes[j].original = rawChanges[i].original
                  /\ changes[j].suggested = rawChanges[i + 1].suggested

DisplayedIds == {suggestion.changes[i].id : i \in DOMAIN suggestion.changes}

\* C27: after any sequence of events selectedChangeIds holds only ids of
\* records of the current suggestion, and is empty whenever suggestion is
\* null.
C27_SelectionInvariant ==
    /\ selectedChangeIds \subseteq DisplayedIds
    /\ suggestion = NoSuggestion => selectedChangeIds = {}

\* a record of the suggestion on display has been rejected while another
\* stays selected
C27_Witness ==
    /\ phase = "rejected"
    /\ suggestion # NoSuggestion
    /\ selectedChangeIds # {}
    /\ selectedChangeIds # DisplayedIds

\* the records of the suggestion whose ids are selected, in the order of
\* suggestion.changes
SelectedRecords ==
    LET has(change) == change.id \in selectedChangeIds
    IN  SelectSeq(suggestion.changes, has)

\* C28: accept-all followed by apply sets the editor to suggestion.suggested;
\* apply with any selection S sets it to applyChangesToContent(
\* suggestion.original, the records of S in the order of changes) and
\* leaves suggestion null and selectedChangeIds empty.
C28_AcceptAllThenApply ==
    [][phase' = "applied" =>
           /\ phase = "acceptedAll" => currentContent' = suggestion.suggested
           /\ currentContent' = applyChangesToContent(suggestion.original, SelectedRecords)
           /\ suggestion' = NoSuggestion
           /\ selectedChangeIds' = {}]_vars

\* C28, what holds of apply with any selection
C28_ApplySelection ==
    [][phase' = "applied" =>
           /\ currentContent' = applyChangesToContent(suggestion.original, SelectedRecords)
           /\ suggestion' = NoSuggestion
           /\ selectedChangeIds' = {}]_vars

\* C29: whenever handleApplyChanges writes to the editor, the editor holds
\* the text the suggestion was made for: no edit made since the request is
\* overwritten.
C29_NoStaleApply ==
    [][phase' = "applied" => currentContent = suggestion.original]_vars

\* C30: loading is true and error null once getSuggestions has started;
\* every started request sets loading back to false in the end; when it has
\* ended, error is non-null exactly if it failed; a failed request leaves
\* suggestion and selectedChangeIds as they were.
C30_RequestLifecycle ==
    /\ [][/\ phase' = "requested" => (loading' /\ error' = NoError)
          /\ (request.state = "pending" /\ request'.state = "failed") =>
                 (suggestion' = suggestion /\ selectedChangeIds' = selectedChangeIds)]_vars
    /\ [](request.state = "pending" <=> loading)
    /\ [](request.state \in {"succeeded", "failed"} =>
              (error # NoError <=> request.state = "failed"))
    /\ (loading ~> ~loading)

\* a request that the validation of the server turned down has ended
C30_Witness ==
    /\ phase = "failed"
    /\ request.state = "failed"
    /\ request.content = <<>>
    /\ ~loading
    /\ error.message = "Content is required"

====
